---- MODULE Spec2Model ----
(***************************************************************************)
(* Model of the reporting query subsystem of RudiFabricio8/reportes:       *)
(*   lib/schemas.ts   Zod schemas and parseSearchParams                    *)
(*   lib/queries.ts   gateway functions, query(), the report handlers      *)
(*   lib/db.ts        the pool, query(), testConnection and the exports    *)
(*   app/page.tsx     the dashboard and getDashboardKPIs                   *)
(*   db/reports_vw.sql (unnamed/part_000)  the aggregation views           *)
(*                                                                         *)
(* JavaScript strings are sequences of one-character strings.  JavaScript  *)
(* values that flow through the validator and the gateway are records      *)
(* [t, s, n] (type tag, string payload, number payload).                   *)
(***************************************************************************)
EXTENDS Integers, Sequences, FiniteSets, TLC

\* ------------------------------------------------------------------------
\* Bounds of the model (not program constants)
\* ------------------------------------------------------------------------
MaxOrdenes == 4

\* ------------------------------------------------------------------------
\* JavaScript values
\* ------------------------------------------------------------------------
Undefined == [t |-> "undefined", s |-> <<>>, n |-> 0]
JSString(chars) == [t |-> "string", s |-> chars, n |-> 0]
JSNumber(k) == [t |-> "number", s |-> <<>>, n |-> k]

\* `if (x)` on a string or undefined value
Truthy(v) ==
    CASE v.t = "undefined" -> FALSE
      [] v.t = "string" -> v.s # <<>>
      [] v.t = "number" -> v.n # 0
      [] OTHER -> TRUE

\* ------------------------------------------------------------------------
\* Number(string): ECMAScript StringToNumber for decimal literals
\* (whitespace trimmed, empty string is 0, optional sign, digits, optional
\* fraction, optional exponent; anything else is NaN).  Radix prefixes and
\* "Infinity" do not occur in the raw strings enumerated below.
\* ------------------------------------------------------------------------
Digits == {"0", "1", "2", "3", "4", "5", "6", "7", "8", "9"}

DigitVal(c) ==
    CASE c = "0" -> 0 [] c = "1" -> 1 [] c = "2" -> 2 [] c = "3" -> 3
      [] c = "4" -> 4 [] c = "5" -> 5 [] c = "6" -> 6 [] c = "7" -> 7
      [] c = "8" -> 8 [] c = "9" -> 9

WhiteSpace == {" "}

RECURSIVE TrimStart(_)
TrimStart(s) ==
    IF s # <<>> /\ Head(s) \in WhiteSpace THEN TrimStart(Tail(s)) ELSE s

RECURSIVE TrimEnd(_)
TrimEnd(s) ==
    IF s # <<>> /\ s[Len(s)] \in WhiteSpace
    THEN TrimEnd(SubSeq(s, 1, Len(s) - 1)) ELSE s

Trim(s) == TrimEnd(TrimStart(s))

\* first index >= i of s that does not hold a digit (Len(s)+1 if none)
RECURSIVE SkipDigits(_, _)
SkipDigits(s, i) ==
    IF i <= Len(s) /\ s[i] \in Digits THEN SkipDigits(s, i + 1) ELSE i

RECURSIVE DigitsValue(_)
DigitsValue(ds) ==
    IF ds = <<>> THEN 0
    ELSE 10 * DigitsValue(SubSeq(ds, 1, Len(ds) - 1)) + DigitVal(ds[Len(ds)])

RECURSIVE Pow10(_)
Pow10(k) == IF k <= 0 THEN 1 ELSE 10 * Pow10(k - 1)

NaN == [nan |-> TRUE, isInt |-> FALSE, val |-> 0]

\* the number sign * mant * 10^scale: isInt (Number.isInteger) and val
\* (the value when isInt)
Decimal(neg, mant, scale) ==
    IF scale >= 0
    THEN [nan |-> FALSE, isInt |-> TRUE,
          val |-> IF neg THEN 0 - mant * Pow10(scale) ELSE mant * Pow10(scale)]
    ELSE IF mant % Pow10(0 - scale) = 0
    THEN [nan |-> FALSE, isInt |-> TRUE,
          val |-> IF neg THEN 0 - (mant \div Pow10(0 - scale))
                  ELSE mant \div Pow10(0 - scale)]
    ELSE [nan |-> FALSE, isInt |-> FALSE, val |-> 0]

\* the exponent digits s[e1 .. Len(s)] (at least one, nothing after them)
ExponentDigits(s, neg, mant, fracLen, expNeg, e1) ==
    IF e1 > Len(s) \/ SkipDigits(s, e1) # Len(s) + 1 THEN NaN
    ELSE IF expNeg
    THEN Decimal(neg, mant, 0 - DigitsValue(SubSeq(s, e1, Len(s))) - fracLen)
    ELSE Decimal(neg, mant, DigitsValue(SubSeq(s, e1, Len(s))) - fracLen)

\* what follows the mantissa at index k: nothing, or an exponent part
ExponentPart(s, neg, mant, fracLen, k) ==
    IF k = Len(s) + 1 THEN Decimal(neg, mant, 0 - fracLen)
    ELSE IF s[k] \notin {"e", "E"} THEN NaN
    ELSE IF k + 1 <= Len(s) /\ s[k + 1] \in {"+", "-"}
    THEN ExponentDigits(s, neg, mant, fracLen, s[k + 1] = "-", k + 2)
    ELSE ExponentDigits(s, neg, mant, fracLen, FALSE, k + 1)

\* the fraction digits s[j+1 .. k-1] after the dot at index j
FractionPart(s, neg, i1, j, k) ==
    IF (j - i1) + (k - j - 1) < 1 THEN NaN
    ELSE ExponentPart(s, neg,
                      DigitsValue(SubSeq(s, i1, j - 1) \o SubSeq(s, j + 1, k - 1)),
                      k - j - 1, k)

\* the integer digits s[i1 .. j-1], then an optional fraction
IntegerPart(s, neg, i1, j) ==
    IF j <= Len(s) /\ s[j] = "."
    THEN FractionPart(s, neg, i1, j, SkipDigits(s, j + 1))
    ELSE IF j = i1 THEN NaN
    ELSE ExponentPart(s, neg, DigitsValue(SubSeq(s, i1, j - 1)), 0, j)

\* a trimmed string: empty is 0, otherwise an optionally signed literal
StrNumericLiteral(s) ==
    IF s = <<>> THEN [nan |-> FALSE, isInt |-> TRUE, val |-> 0]
    ELSE IF s[1] \in {"+", "-"}
    THEN IntegerPart(s, s[1] = "-", 2, SkipDigits(s, 2))
    ELSE IntegerPart(s, FALSE, 1, SkipDigits(s, 1))

ToNumber(str) == StrNumericLiteral(Trim(str))

\* ------------------------------------------------------------------------
\* Zod field parsers.  A field result is [ok, val]: ok = no issue was
\* raised for the field, val = the parsed JavaScript value.
\* ------------------------------------------------------------------------
Issue == [ok |-> FALSE, val |-> Undefined]
Parsed(v) == [ok |-> TRUE, val |-> v]

\* a field without .max() has no upper limit
NoMax == [has |-> FALSE, max |-> 0]
Max(hi) == [has |-> TRUE, max |-> hi]

\* ZodCoerceInt with out-of-range values clamped to the nearest limit
ZodCoerceInt_clamp(input, lo, hi) ==
    IF ToNumber(input.s).nan \/ ~ToNumber(input.s).isInt THEN Issue
    ELSE IF ToNumber(input.s).val < lo THEN Parsed(JSNumber(lo))
    ELSE IF hi.has /\ ToNumber(input.s).val > hi.max THEN Parsed(JSNumber(hi.max))
    ELSE Parsed(JSNumber(ToNumber(input.s).val))

\* z.coerce.number().int().min(lo)[.max(hi)]: input is a defined value
ZodCoerceInt(input, lo, hi) ==
    LET x == ToNumber(input.s)
    IN  IF x.nan \/ ~x.isInt \/ x.val < lo \/ (hi.has /\ x.val > hi.max)
        THEN Issue
        ELSE Parsed(JSNumber(x.val))

\* ZodDefault without the default: an undefined input is an issue
ZodDefault_required(input, d, lo, hi) ==
    IF input = Undefined THEN Issue ELSE ZodCoerceInt(input, lo, hi)

\* ....default(d): undefined input yields d, anything else is parsed
ZodDefault(input, d, lo, hi) ==
    IF input = Undefined THEN Parsed(JSNumber(d))
    ELSE ZodCoerceInt(input, lo, hi)

\* ....optional(): undefined input stays undefined
ZodOptionalInt(input, lo, hi) ==
    IF input = Undefined THEN Parsed(Undefined)
    ELSE ZodCoerceInt(input, lo, hi)

\* /^\d{4}-\d{2}-\d{2}$/
DateRegex(s) ==
    /\ Len(s) = 10
    /\ \A i \in {1, 2, 3, 4, 6, 7, 9, 10} : s[i] \in Digits
    /\ s[5] = "-" /\ s[8] = "-"

\* z.string().regex(...).optional()
ZodOptionalDate(input) ==
    IF input = Undefined THEN Parsed(Undefined)
    ELSE IF input.t = "string" /\ DateRegex(input.s) THEN Parsed(input)
    ELSE Issue

StatusEnum ==
    { <<"p","e","n","d","i","e","n","t","e">>,
      <<"p","a","g","a","d","o">>,
      <<"e","n","v","i","a","d","o">>,
      <<"e","n","t","r","e","g","a","d","o">>,
      <<"c","a","n","c","e","l","a","d","o">> }

\* z.enum([...]).optional()
ZodOptionalEnum(input) ==
    IF input = Undefined THEN Parsed(Undefined)
    ELSE IF input.t = "string" /\ input.s \in StatusEnum THEN Parsed(input)
    ELSE Issue

\* ------------------------------------------------------------------------
\* The schemas: the keys of each z.object and the parser of each key
\* ------------------------------------------------------------------------
SchemaNames == {"PaginationSchema", "TopNSchema", "DateRangeSchema",
                "OrderStatusSchema", "CategoryFilterSchema"}

SchemaKeys(schema) ==
    CASE schema = "PaginationSchema" -> {"page", "limit"}
      [] schema = "TopNSchema" -> {"topN"}
      [] schema = "DateRangeSchema" -> {"startDate", "endDate"}
      [] schema = "OrderStatusSchema" -> {"status"}
      [] schema = "CategoryFilterSchema" -> {"categoriaId"}

ParseField(key, input) ==
    CASE key = "page" -> ZodDefault(input, 1, 1, NoMax)
      [] key = "limit" -> ZodDefault(input, 10, 1, Max(100))
      [] key = "topN" -> ZodDefault(input, 10, 1, Max(50))
      [] key = "startDate" -> ZodOptionalDate(input)
      [] key = "endDate" -> ZodOptionalDate(input)
      [] key = "status" -> ZodOptionalEnum(input)
      [] key = "categoriaId" -> ZodOptionalInt(input, 1, NoMax)

\* ZodParse of a z.object(...).strict(): an unrecognized key is an issue
ZodParse_strict(schema, params) ==
    IF /\ DOMAIN params \subseteq SchemaKeys(schema)
       /\ \A k \in SchemaKeys(schema) :
              ParseField(k, IF k \in DOMAIN params THEN params[k]
                            ELSE Undefined).ok
    THEN [ok |-> TRUE,
          data |-> [k \in SchemaKeys(schema) |->
                      ParseField(k, IF k \in DOMAIN params THEN params[k]
                                    ELSE Undefined).val]]
    ELSE [ok |-> FALSE,
          data |-> [k \in SchemaKeys(schema) |-> Undefined]]

\* ZodParse keeping the valid fields and dropping the invalid ones
ZodParse_partial(schema, params) ==
    [ok |-> TRUE,
     data |-> [k \in SchemaKeys(schema) |->
                 ParseField(k, IF k \in DOMAIN params THEN params[k]
                               ELSE Undefined).val]]

\* schema.parse(params): params maps the present keys to string values.
\* Unknown keys are stripped; one issue on any key makes parse throw.
ZodParse(schema, params) ==
    LET field(k) == ParseField(k, IF k \in DOMAIN params THEN params[k]
                                  ELSE Undefined)
    IN  IF \A k \in SchemaKeys(schema) : field(k).ok
        THEN [ok |-> TRUE,
              data |-> [k \in SchemaKeys(schema) |-> field(k).val]]
        ELSE [ok |-> FALSE,
              data |-> [k \in SchemaKeys(schema) |-> Undefined]]

\* ------------------------------------------------------------------------
\* parseSearchParams: a raw search parameter is a string, a string array
\* or undefined: [t, a] with a the list of strings it holds.
\* ------------------------------------------------------------------------
RawStr(chars) == [t |-> "string", a |-> <<chars>>]
RawArr(strs) == [t |-> "array", a |-> strs]
RawUndef == [t |-> "undefined", a |-> <<>>]

parseSearchParams(searchParams, schema) ==
    LET kept == {k \in DOMAIN searchParams :
                    \/ searchParams[k].t = "string"
                    \/ searchParams[k].t = "array" /\ Len(searchParams[k].a) > 0}
        params == [k \in kept |-> JSString(searchParams[k].a[1])]
    IN  ZodParse(schema, params)

\* ------------------------------------------------------------------------
\* The base tables (read-only for the application).  A database is
\* [usuarios, ordenes, orden_detalles]; productos and categorias are fixed.
\* Dates are the integers yyyymmdd, timestamps are yyyymmddhh.
\* ------------------------------------------------------------------------
NumUsuarios == 3
NumCategorias == 3

Pendiente == <<"p","e","n","d","i","e","n","t","e">>
Pagado == <<"p","a","g","a","d","o">>
Enviado == <<"e","n","v","i","a","d","o">>

Productos == 1 .. (MaxOrdenes + 1)
CategoriaDe(p) == ((p - 1) % NumCategorias) + 1

\* order i of the fixture: two orders per day, users and statuses in turn
OrdenFila(i) ==
    [id |-> i,
     usuario_id |-> ((i - 1) % NumUsuarios) + 1,
     status |-> IF i % 3 = 1 THEN Pendiente ELSE IF i % 3 = 2 THEN Pagado
                ELSE Enviado,
     total |-> 10 * i,
     created_at |-> (20260100 + ((i + 1) \div 2)) * 100 + i]

\* order i has one line of product i and one line of product i + 1
DetallesDe(i) ==
    { [id |-> 2 * i - 1, orden_id |-> i, producto_id |-> i,
       cantidad |-> 1, subtotal |-> 4 * i],
      [id |-> 2 * i, orden_id |-> i, producto_id |-> i + 1,
       cantidad |-> 2, subtotal |-> 6 * i] }

Fixture(k) ==
    [usuarios |-> 1 .. NumUsuarios,
     ordenes |-> {OrdenFila(i) : i \in 1 .. k},
     orden_detalles |-> UNION {DetallesDe(i) : i \in 1 .. k}]

Fixtures == {Fixture(k) : k \in 0 .. MaxOrdenes}

\* Databases of other shapes: order i of 1 .. NumPedidos is absent (forma
\* 0), has no line (1), one line (2) or three lines (3), the third of them
\* of quantity and subtotal 0; the total of an order is the sum of the
\* subtotals of its lines; the first three orders are of user 1.
NumPedidos == 3

Formas == 0 .. 3

LineasDe(i, forma) ==
    { [id |-> 3 * i - 3 + k, orden_id |-> i,
       producto_id |-> ((i + k - 2) % Cardinality(Productos)) + 1,
       cantidad |-> IF k = 3 THEN 0 ELSE k,
       subtotal |-> IF k = 1 THEN 600 \div i
                    ELSE IF k = 2 THEN 400 \div i ELSE 0]
      : k \in 1 .. (IF forma = 3 THEN 3 ELSE IF forma = 2 THEN 1 ELSE 0) }

OrdenDe(i, forma) ==
    [id |-> i,
     usuario_id |-> IF (i - 1) \div 3 + 1 <= NumUsuarios
                    THEN (i - 1) \div 3 + 1 ELSE NumUsuarios,
     status |-> IF i % 3 = 1 THEN Pendiente ELSE IF i % 3 = 2 THEN Pagado
                ELSE Enviado,
     total |-> IF forma = 3 THEN 600 \div i + 400 \div i
               ELSE IF forma = 2 THEN 600 \div i ELSE 0,
     created_at |-> (20260100 + ((i + 1) \div 2)) * 100 + i]

DatabaseOf(f) ==
    [usuarios |-> 1 .. NumUsuarios,
     ordenes |-> {OrdenDe(i, f[i]) : i \in {x \in DOMAIN f : f[x] # 0}},
     orden_detalles |-> UNION {LineasDe(i, f[i]) : i \in DOMAIN f}]

Databases == {DatabaseOf(f) : f \in [1 .. NumPedidos -> Formas]}

\* ------------------------------------------------------------------------
\* Helpers for the aggregates
\* ------------------------------------------------------------------------
\* a nullable column value
Null == [null |-> TRUE, err |-> FALSE, val |-> 0]
NotNull(v) == [null |-> FALSE, err |-> FALSE, val |-> v]

\* what a division by zero puts in place of a value: the statement that
\* evaluates it fails
DivisionByZero == [null |-> FALSE, err |-> TRUE, val |-> 0]

\* the divisor used as it is
NULLIF_absent(v, z) == NotNull(v)

\* NULLIF(v, z)
NULLIF(v, z) == IF v = z THEN Null ELSE NotNull(v)

\* DATE(created_at)
DATE(ts) == ts \div 100

\* ROUND(num / den, 2) of non-negative numerics, in hundredths (half away
\* from zero): NULL when the divisor is NULL, an error when it is zero
Round2(num, den) ==
    IF den.null THEN Null
    ELSE IF den.val = 0 THEN DivisionByZero
    ELSE NotNull((200 * num + den.val) \div (2 * den.val))

\* ROUND(AVG(x), 2) of n values of sum `sum`: NULL over no value
RoundAvg(sum, n) == IF n = 0 THEN Null ELSE Round2(sum, NotNull(n))

RECURSIVE MaxOf(_)
MaxOf(S) ==
    LET x == CHOOSE y \in S : TRUE
    IN  IF S = {x} THEN x
        ELSE IF x >= MaxOf(S \ {x}) THEN x ELSE MaxOf(S \ {x})

RECURSIVE SumFn(_, _)
SumFn(f, S) ==
    IF S = {} THEN 0
    ELSE LET x == CHOOSE y \in S : TRUE IN f[x] + SumFn(f, S \ {x})

\* ------------------------------------------------------------------------
\* view_productos_mas_vendidos: one row per sold product, ROW_NUMBER()
\* over units sold descending.  The order among equal units is not fixed
\* by the view: ProductosRankings is every outcome the engine may produce.
\* ------------------------------------------------------------------------
CantidadVendida(d, p) ==
    LET ls == {l \in d.orden_detalles : l.producto_id = p}
    IN  SumFn([l \in ls |-> l.cantidad], ls)

ProductosVendidos(d) ==
    {p \in Productos :
        /\ \E l \in d.orden_detalles : l.producto_id = p
        /\ CantidadVendida(d, p) > 0}

\* every ordering of the products of S by units sold descending
RECURSIVE RankingsOf(_, _)
RankingsOf(d, S) ==
    IF S = {} THEN {<<>>}
    ELSE UNION { {<<x>> \o q : q \in RankingsOf(d, S \ {x})} :
                 x \in {y \in S : \A z \in S :
                           CantidadVendida(d, y) >= CantidadVendida(d, z)} }

ProductosRankings(d) == RankingsOf(d, ProductosVendidos(d))

\* view_productos_mas_vendidos numbering with RANK(): equal units share
\* a rank and the next rank is skipped
view_productos_mas_vendidos_rank(d, q) ==
    { [ranking |->
           1 + Cardinality({j \in 1 .. Len(q) :
                               CantidadVendida(d, q[j]) > CantidadVendida(d, q[i])}),
       producto_id |-> q[i],
       cantidad_vendida |-> CantidadVendida(d, q[i])] : i \in 1 .. Len(q) }

view_productos_mas_vendidos(d, q) ==
    { [ranking |-> i, producto_id |-> q[i],
       cantidad_vendida |-> CantidadVendida(d, q[i])] : i \in 1 .. Len(q) }

\* ------------------------------------------------------------------------
\* view_usuarios_con_compras: usuarios LEFT JOIN ordenes LEFT JOIN
\* orden_detalles, grouped by user.  A join row is [u, o, l] where o and l
\* are 0 for the NULL side of a left join.
\* ------------------------------------------------------------------------
OrdenPorId(d, oid) == CHOOSE o \in d.ordenes : o.id = oid
LineaPorId(d, lid) == CHOOSE l \in d.orden_detalles : l.id = lid

\* TipoCliente without the ELSE branch reached by zero orders
TipoCliente_sinElse(filas) ==
    IF filas >= 3 THEN "Frecuente" ELSE "Ocasional"

\* CASE WHEN COUNT(o.id) >= 3 ... END; filas = COUNT(o.id), the number of
\* join rows of the group whose o.id is not NULL
TipoCliente(filas) ==
    IF filas >= 3 THEN "Frecuente"
    ELSE IF filas >= 1 THEN "Ocasional"
    ELSE "Sin compras"

JoinUsuarios(d) ==
    LET conLineas ==
            { [u |-> o.usuario_id, o |-> o.id, l |-> l.id] :
                <<o, l>> \in {ol \in d.ordenes \X d.orden_detalles :
                                ol[2].orden_id = ol[1].id} }
        sinLineas ==
            { [u |-> o.usuario_id, o |-> o.id, l |-> 0] :
                o \in {x \in d.ordenes :
                        ~\E l \in d.orden_detalles : l.orden_id = x.id} }
        sinOrdenes ==
            { [u |-> u, o |-> 0, l |-> 0] :
                u \in {x \in d.usuarios :
                        ~\E o \in d.ordenes : o.usuario_id = x} }
    IN  {r \in conLineas \cup sinLineas : r.u \in d.usuarios} \cup sinOrdenes

view_usuarios_con_compras(d) ==
    { LET g == {r \in JoinUsuarios(d) : r.u = u}
          conOrden == {r \in g : r.o # 0}
          gastado == SumFn([r \in conOrden |-> OrdenPorId(d, r.o).total],
                           conOrden)
          promedio == RoundAvg(gastado, Cardinality(conOrden))
      IN  [usuario_id |-> u,
           total_ordenes |-> Cardinality({r.o : r \in conOrden}),
           total_gastado |-> gastado,
           promedio_por_orden |->
               IF promedio.null THEN 0 ELSE promedio.val,
           productos_diferentes_comprados |->
               Cardinality({LineaPorId(d, r.l).producto_id :
                               r \in {x \in g : x.l # 0}}),
           ultima_compra |->
               IF conOrden = {} THEN Null
               ELSE NotNull(MaxOf({OrdenPorId(d, r.o).created_at :
                                      r \in conOrden})),
           tipo_cliente |-> TipoCliente(Cardinality(conOrden))]
      : u \in d.usuarios }

\* ------------------------------------------------------------------------
\* view_ordenes_por_status: one row per status present in ordenes
\* ------------------------------------------------------------------------
Prioridad(st) ==
    CASE st = Pendiente -> 1
      [] st = Pagado -> 2
      [] st = Enviado -> 3
      [] st = <<"e","n","t","r","e","g","a","d","o">> -> 4
      [] st = <<"c","a","n","c","e","l","a","d","o">> -> 5
      [] OTHER -> 6

\* WITH totales AS (SELECT COUNT(*), SUM(total) FROM ordenes)
totales(d) ==
    [total_ordenes_global |-> Cardinality(d.ordenes),
     monto_total_global |-> SumFn([o \in d.ordenes |-> o.total], d.ordenes)]

\* view_ordenes_por_status dividing by the totals of the row's own group
view_ordenes_por_status_porGrupo(d) ==
    { LET g == {o \in d.ordenes : o.status = st}
      IN  [status |-> st,
           cantidad_ordenes |-> Cardinality(g),
           monto_total |-> SumFn([o \in g |-> o.total], g),
           porcentaje_ordenes |->
               Round2(Cardinality(g) * 100, NULLIF(Cardinality(g), 0)),
           porcentaje_monto |->
               Round2(SumFn([o \in g |-> o.total], g) * 100,
                      NULLIF(SumFn([o \in g |-> o.total], g), 0)),
           prioridad |-> Prioridad(st)]
      : st \in {o.status : o \in d.ordenes} }

view_ordenes_por_status(d) ==
    { LET g == {o \in d.ordenes : o.status = st}
      IN  [status |-> st,
           cantidad_ordenes |-> Cardinality(g),
           monto_total |-> SumFn([o \in g |-> o.total], g),
           porcentaje_ordenes |->
               Round2(Cardinality(g) * 100,
                      NULLIF(totales(d).total_ordenes_global, 0)),
           porcentaje_monto |->
               Round2(SumFn([o \in g |-> o.total], g) * 100,
                      NULLIF(totales(d).monto_total_global, 0)),
           prioridad |-> Prioridad(st)]
      : st \in {o.status : o \in d.ordenes} }

\* ------------------------------------------------------------------------
\* view_resumen_daily: ordenes LEFT JOIN orden_detalles grouped by date,
\* with the running total SUM(SUM(o.total)) OVER (ORDER BY fecha)
\* ------------------------------------------------------------------------
JoinDaily(d) ==
    { [o |-> ol[1].id, l |-> ol[2].id] :
        ol \in {x \in d.ordenes \X d.orden_detalles : x[2].orden_id = x[1].id} }
    \cup
    { [o |-> o.id, l |-> 0] :
        o \in {x \in d.ordenes :
                ~\E l \in d.orden_detalles : l.orden_id = x.id} }

VentasDelDia(d, f) ==
    LET g == {r \in JoinDaily(d) : DATE(OrdenPorId(d, r.o).created_at) = f}
    IN  SumFn([r \in g |-> OrdenPorId(d, r.o).total], g)

\* the rows of the join that fall on date f
FilasDelDia(d, f) ==
    Cardinality({r \in JoinDaily(d) :
                    DATE(OrdenPorId(d, r.o).created_at) = f})

\* view_resumen_daily with the window ordered by date descending
view_resumen_daily_desc(d) ==
    LET fechas == {DATE(o.created_at) : o \in d.ordenes}
    IN  { [fecha |-> f,
           ordenes_del_dia |->
               Cardinality({o \in d.ordenes : DATE(o.created_at) = f}),
           ventas_del_dia |-> VentasDelDia(d, f),
           ticket_promedio_dia |->
               RoundAvg(VentasDelDia(d, f), FilasDelDia(d, f)),
           ventas_acumuladas |->
               LET hasta == {x \in fechas : x >= f}
               IN  SumFn([x \in hasta |-> VentasDelDia(d, x)], hasta)]
          : f \in fechas }

\* view_resumen_daily with the window partitioned by date
view_resumen_daily_porFecha(d) ==
    LET fechas == {DATE(o.created_at) : o \in d.ordenes}
    IN  { [fecha |-> f,
           ordenes_del_dia |->
               Cardinality({o \in d.ordenes : DATE(o.created_at) = f}),
           ventas_del_dia |-> VentasDelDia(d, f),
           ticket_promedio_dia |->
               RoundAvg(VentasDelDia(d, f), FilasDelDia(d, f)),
           ventas_acumuladas |->
               LET hasta == {x \in fechas : x = f}
               IN  SumFn([x \in hasta |-> VentasDelDia(d, x)], hasta)]
          : f \in fechas }

view_resumen_daily(d) ==
    LET fechas == {DATE(o.created_at) : o \in d.ordenes}
    IN  { [fecha |-> f,
           ordenes_del_dia |->
               Cardinality({o \in d.ordenes : DATE(o.created_at) = f}),
           ventas_del_dia |-> VentasDelDia(d, f),
           ticket_promedio_dia |->
               RoundAvg(VentasDelDia(d, f), FilasDelDia(d, f)),
           ventas_acumuladas |->
               LET hasta == {x \in fechas : x <= f}
               IN  SumFn([x \in hasta |-> VentasDelDia(d, x)], hasta)]
          : f \in fechas }

\* ------------------------------------------------------------------------
\* view_ventas_por_categoria: one row per category with revenue > 0
\* ------------------------------------------------------------------------
\* view_ventas_por_categoria giving the share as a fraction of 1
view_ventas_por_categoria_fraccion(d) ==
    LET lineas(c) == {l \in d.orden_detalles :
                        /\ CategoriaDe(l.producto_id) = c
                        /\ \E o \in d.ordenes : o.id = l.orden_id}
        ingresos(c) == SumFn([l \in lineas(c) |-> l.subtotal], lineas(c))
        global == SumFn([l \in d.orden_detalles |-> l.subtotal],
                        d.orden_detalles)
    IN  { [categoria_id |-> c,
           total_ordenes |-> Cardinality({l.orden_id : l \in lineas(c)}),
           ingresos_totales |-> ingresos(c),
           porcentaje_del_total |-> Round2(ingresos(c), NULLIF(global, 0))]
          : c \in {x \in 1 .. NumCategorias :
                     lineas(x) # {} /\ ingresos(x) > 0} }

view_ventas_por_categoria(d) ==
    LET lineas(c) == {l \in d.orden_detalles :
                        /\ CategoriaDe(l.producto_id) = c
                        /\ \E o \in d.ordenes : o.id = l.orden_id}
        ingresos(c) == SumFn([l \in lineas(c) |-> l.subtotal], lineas(c))
        global == SumFn([l \in d.orden_detalles |-> l.subtotal],
                        d.orden_detalles)
    IN  { [categoria_id |-> c,
           total_ordenes |-> Cardinality({l.orden_id : l \in lineas(c)}),
           ingresos_totales |-> ingresos(c),
           porcentaje_del_total |->
               Round2(ingresos(c) * 100, NULLIF(global, 0))]
          : c \in {x \in 1 .. NumCategorias :
                     lineas(x) # {} /\ ingresos(x) > 0} }

\* ------------------------------------------------------------------------
\* Query text.  A text is a sequence of tokens [k, s, n, v]: k the
\* syntactic class, s the SQL text of the token, n the number of a
\* placeholder $n, v the value of a literal written into the text.
\* ------------------------------------------------------------------------
Tok(k, s) == [k |-> k, s |-> s, n |-> 0, v |-> Undefined]
Ph(n) == [k |-> "ph", s |-> "$", n |-> n, v |-> Undefined]
Lit(v) == [k |-> "lit", s |-> "", n |-> 0, v |-> v]

SelectFrom(view) == Tok("select", view)
CountFrom(view) == Tok("count", view)

\* SELECT 1
SelectOne == <<Tok("value", "1")>>

\* ------------------------------------------------------------------------
\* The database engine: what PostgreSQL does with a query text and the
\* values bound to it.
\* ------------------------------------------------------------------------
DaysIn(y, m) ==
    IF m \in {4, 6, 9, 11} THEN 30
    ELSE IF m = 2
         THEN (IF (y % 4 = 0 /\ y % 100 # 0) \/ y % 400 = 0 THEN 29 ELSE 28)
    ELSE 31

\* $n::date
DateCast(v) ==
    IF v.t = "string" /\ DateRegex(v.s)
    THEN LET y == DigitsValue(SubSeq(v.s, 1, 4))
             m == DigitsValue(SubSeq(v.s, 6, 7))
             dd == DigitsValue(SubSeq(v.s, 9, 10))
         IN  IF y >= 1 /\ m \in 1 .. 12 /\ dd \in 1 .. DaysIn(y, m)
             THEN [ok |-> TRUE, val |-> y * 10000 + m * 100 + dd]
             ELSE [ok |-> FALSE, val |-> 0]
    ELSE [ok |-> FALSE, val |-> 0]

RECURSIVE ToDigits(_)
ToDigits(n) ==
    LET c == CASE n % 10 = 0 -> "0" [] n % 10 = 1 -> "1" [] n % 10 = 2 -> "2"
               [] n % 10 = 3 -> "3" [] n % 10 = 4 -> "4" [] n % 10 = 5 -> "5"
               [] n % 10 = 6 -> "6" [] n % 10 = 7 -> "7" [] n % 10 = 8 -> "8"
               [] n % 10 = 9 -> "9"
    IN  IF n < 10 THEN <<c>> ELSE ToDigits(n \div 10) \o <<c>>

\* GRANT SELECT ON view_... TO app_reader: all that the role of the
\* application may read
GrantedSelect ==
    {"view_ventas_por_categoria", "view_productos_mas_vendidos",
     "view_usuarios_con_compras", "view_ordenes_por_status",
     "view_resumen_daily"}

\* the statement is one app_reader is allowed to run
Permitted(text) ==
    \/ text = SelectOne
    \/ text[1].k \in {"select", "count", "sum"} /\ text[1].s \in GrantedSelect

\* evaluating the view divides by zero
DivisionError(d, view) ==
    CASE view = "view_ventas_por_categoria" ->
            \E r \in view_ventas_por_categoria(d) : r.porcentaje_del_total.err
      [] view = "view_ordenes_por_status" ->
            \E r \in view_ordenes_por_status(d) :
                r.porcentaje_ordenes.err \/ r.porcentaje_monto.err
      [] OTHER -> FALSE

\* the rows of a view; q is the ranking the engine produced
ViewRows(d, view, q) ==
    CASE view = "view_ventas_por_categoria" -> view_ventas_por_categoria(d)
      [] view = "view_productos_mas_vendidos" ->
            view_productos_mas_vendidos(d, q)
      [] view = "view_usuarios_con_compras" -> view_usuarios_con_compras(d)
      [] view = "view_ordenes_por_status" -> view_ordenes_por_status(d)
      [] view = "view_resumen_daily" -> view_resumen_daily(d)

\* the sort key of ORDER BY col [DESC], made ascending
SortKey(col, r) ==
    CASE col = "ranking" -> r.ranking
      [] col = "prioridad" -> r.prioridad
      [] col = "total_gastado DESC" -> 0 - r.total_gastado
      [] col = "fecha DESC" -> 0 - r.fecha
      [] col = "ingresos_totales DESC" -> 0 - r.ingresos_totales
      [] col = "cantidad_vendida DESC" -> 0 - r.cantidad_vendida
      [] col = "fecha" -> r.fecha

\* the ORDER BY of the view itself, which orders the rows of a query that
\* has no ORDER BY of its own
ViewOrder(view) ==
    CASE view = "view_ventas_por_categoria" -> "ingresos_totales DESC"
      [] view = "view_productos_mas_vendidos" -> "cantidad_vendida DESC"
      [] view = "view_usuarios_con_compras" -> "total_gastado DESC"
      [] view = "view_ordenes_por_status" -> "prioridad"
      [] view = "view_resumen_daily" -> "fecha"

\* a numeric(_, 2) value as the driver hands it over: a string
NumericText(n) == ToDigits(n) \o <<".", "0", "0">>

\* every sequence of the rows of S in ascending key order
RECURSIVE Sorted(_, _)
Sorted(S, col) ==
    IF S = {} THEN {<<>>}
    ELSE UNION { {<<x>> \o q : q \in Sorted(S \ {x}, col)} :
                 x \in {y \in S : \A z \in S :
                           SortKey(col, y) <= SortKey(col, z)} }

\* the value of the operand at position i of the text
Operand(text, values, i) ==
    IF text[i].k = "ph" THEN values[text[i].n] ELSE text[i].v

Positions(text, kinds) == {i \in 1 .. Len(text) : text[i].k \in kinds}

\* the outcomes of executing text with values on d: [ok, rows]
ExecQuery(d, text, values) ==
    LET phs == {text[i].n : i \in Positions(text, {"ph"})}
        preds == Positions(text, {"where", "and"})
        casts == {i \in preds : i + 2 <= Len(text) /\ text[i + 2].k = "cast"}
        val(i) == Operand(text, values, i + 1)
        bound == phs = 1 .. Len(values)
        typed ==
            /\ \A i \in casts : DateCast(val(i)).ok
            /\ \A i \in preds \ casts :
                   IF text[i].s = "status = " THEN val(i).t = "string"
                   ELSE val(i).t = "number"
            /\ \A i \in Positions(text, {"limit", "offset"}) :
                   val(i).t = "number" /\ val(i).n >= 0
        holds(r, i) ==
            CASE text[i].s = "ranking <= " -> r.ranking <= val(i).n
              [] text[i].s = "ranking = " -> r.ranking = val(i).n
              [] text[i].s = "status = " -> r.status = val(i).s
              [] text[i].s = "fecha >= " -> r.fecha >= DateCast(val(i)).val
              [] text[i].s = "fecha <= " -> r.fecha <= DateCast(val(i)).val
        orders == Positions(text, {"order"})
        limits == Positions(text, {"limit"})
        offsets == Positions(text, {"offset"})
        skip == IF offsets = {} THEN 0
                ELSE val(CHOOSE i \in offsets : TRUE).n
        window(seq) ==
            LET from == skip + 1
                to == IF limits = {} THEN Len(seq)
                      ELSE IF skip + val(CHOOSE i \in limits : TRUE).n < Len(seq)
                           THEN skip + val(CHOOSE i \in limits : TRUE).n
                           ELSE Len(seq)
            IN  SubSeq(seq, from, to)
        matching(q) ==
            {r \in ViewRows(d, text[1].s, q) : \A i \in preds : holds(r, i)}
        col == IF orders = {} THEN ViewOrder(text[1].s)
               ELSE text[CHOOSE i \in orders : TRUE].s
        \* COALESCE(SUM(ingresos_totales), 0), COALESCE(SUM(total_ordenes), 0)
        sums(S) ==
            [total_ventas |->
                 NumericText(SumFn([r \in S |-> r.ingresos_totales], S)),
             total_ordenes |->
                 ToDigits(SumFn([r \in S |-> r.total_ordenes], S))]
    IN  IF ~Permitted(text) THEN {[ok |-> FALSE, rows |-> <<>>]}
        ELSE IF text = SelectOne
        THEN {[ok |-> TRUE, rows |-> << [value |-> 1] >>]}
        ELSE IF ~bound \/ ~typed \/ DivisionError(d, text[1].s)
        THEN {[ok |-> FALSE, rows |-> <<>>]}
        ELSE IF text[1].k = "count"
        THEN { [ok |-> TRUE,
                rows |-> << [count |-> ToDigits(Cardinality(matching(q)))] >>] :
               q \in ProductosRankings(d) }
        ELSE IF text[1].k = "sum"
        THEN { [ok |-> TRUE, rows |-> << sums(matching(q)) >>] :
               q \in ProductosRankings(d) }
        ELSE { [ok |-> TRUE, rows |-> window(seq)] :
               seq \in UNION {Sorted(matching(q), col) :
                                q \in ProductosRankings(d)} }

\* ------------------------------------------------------------------------
\* The gateway functions of lib/queries.ts: the queries they build.  A
\* query is [text, params, ref]; ref = the params array handed to query()
\* is the function's own mutable `params` array (getResumenDaily), so the
\* driver reads whatever that array holds when it serialises the values.
\* ------------------------------------------------------------------------
Query(text, params, ref) == [text |-> text, params |-> params, ref |-> ref]

\* Offset counting pages from zero
Offset_pageTimesLimit(page, limit) == JSNumber(page.n * limit.n)

\* const offset = (page - 1) * limit
Offset(page, limit) == JSNumber((page.n - 1) * limit.n)

\* parseInt(countResult.rows[0]?.count || '0')
parseInt(rows) ==
    LET count == IF Len(rows) >= 1 /\ rows[1].count # <<>> THEN rows[1].count
                 ELSE <<"0">>
        s == TrimStart(count)
        j == SkipDigits(s, 1)
    IN  IF j = 1 THEN [t |-> "NaN", s |-> <<>>, n |-> 0]
        ELSE JSNumber(DigitsValue(SubSeq(s, 1, j - 1)))

getVentasPorCategoria_query ==
    Query(<<SelectFrom("view_ventas_por_categoria"),
            Tok("order", "ingresos_totales DESC")>>, <<>>, FALSE)

\* getProductosMasVendidos_count without the ranking filter
getProductosMasVendidos_count_all(topN) ==
    Query(<<CountFrom("view_productos_mas_vendidos")>>, <<>>, FALSE)

getProductosMasVendidos_count(topN) ==
    Query(<<CountFrom("view_productos_mas_vendidos"),
            Tok("where", "ranking <= "), Ph(1)>>,
          <<topN>>, FALSE)

getProductosMasVendidos_fetch(topN, limit, off) ==
    Query(<<SelectFrom("view_productos_mas_vendidos"),
            Tok("where", "ranking <= "), Ph(1),
            Tok("order", "ranking"),
            Tok("limit", "LIMIT "), Ph(2),
            Tok("offset", "OFFSET "), Ph(3)>>,
          <<topN, limit, off>>, FALSE)

getUsuariosConCompras_count ==
    Query(<<CountFrom("view_usuarios_con_compras")>>, <<>>, FALSE)

getUsuariosConCompras_fetch(limit, off) ==
    Query(<<SelectFrom("view_usuarios_con_compras"),
            Tok("order", "total_gastado DESC"),
            Tok("limit", "LIMIT "), Ph(1),
            Tok("offset", "OFFSET "), Ph(2)>>,
          <<limit, off>>, FALSE)

\* getOrdenesPorStatus_query writing the status into the text
getOrdenesPorStatus_query_interpolated(status) ==
    IF Truthy(status)
    THEN Query(<<SelectFrom("view_ordenes_por_status"),
                 Tok("where", "status = "), Lit(status),
                 Tok("order", "prioridad")>>, <<>>, FALSE)
    ELSE Query(<<SelectFrom("view_ordenes_por_status"),
                 Tok("order", "prioridad")>>, <<>>, FALSE)

getOrdenesPorStatus_query(status) ==
    IF Truthy(status)
    THEN Query(<<SelectFrom("view_ordenes_por_status"),
                 Tok("where", "status = "), Ph(1),
                 Tok("order", "prioridad")>>,
               <<status>>, FALSE)
    ELSE Query(<<SelectFrom("view_ordenes_por_status"),
                 Tok("order", "prioridad")>>, <<>>, FALSE)

\* getResumenDaily_where with one fixed placeholder per filter name
getResumenDaily_where_fixedIndex(startDate, endDate) ==
    [whereClause |->
        (IF Truthy(startDate)
         THEN <<Tok("where", "fecha >= "), Ph(1), Tok("cast", "::date ")>>
         ELSE <<>>) \o
        (IF Truthy(endDate)
         THEN <<Tok(IF Truthy(startDate) THEN "and" ELSE "where", "fecha <= "),
                Ph(2), Tok("cast", "::date ")>>
         ELSE <<>>),
     params |-> (IF Truthy(startDate) THEN <<startDate>> ELSE <<>>) \o
                (IF Truthy(endDate) THEN <<endDate>> ELSE <<>>),
     paramIndex |-> 3]

\* getResumenDaily, lines 184-203: whereClause, params and paramIndex
\* after the two `if` blocks
getResumenDaily_where(startDate, endDate) ==
    LET w1 == IF Truthy(startDate)
              THEN [whereClause |-> <<Tok("where", "fecha >= "), Ph(1),
                                      Tok("cast", "::date ")>>,
                    params |-> <<startDate>>, paramIndex |-> 2]
              ELSE [whereClause |-> <<>>, params |-> <<>>, paramIndex |-> 1]
    IN  IF Truthy(endDate)
        THEN [whereClause |->
                 w1.whereClause \o
                 <<Tok(IF w1.whereClause # <<>> THEN "and" ELSE "where",
                       "fecha <= "),
                   Ph(w1.paramIndex), Tok("cast", "::date ")>>,
              params |-> Append(w1.params, endDate),
              paramIndex |-> w1.paramIndex + 1]
        ELSE w1

getResumenDaily_count(w) ==
    Query(<<CountFrom("view_resumen_daily")>> \o w.whereClause,
          w.params, TRUE)

\* the fetch of getResumenDaily; ps is the params array after the push
getResumenDaily_fetch(w, ps) ==
    Query(<<SelectFrom("view_resumen_daily")>> \o w.whereClause \o
          <<Tok("order", "fecha DESC"),
            Tok("limit", "LIMIT "), Ph(w.paramIndex),
            Tok("offset", "OFFSET "), Ph(w.paramIndex + 1)>>,
          ps, TRUE)

\* totalPages rounding down
totalPages_floor(total, limit) ==
    IF total.t # "number" THEN total ELSE JSNumber(total.n \div limit.n)

\* Math.ceil(total / limit)
totalPages(total, limit) ==
    IF total.t # "number" THEN total
    ELSE JSNumber((total.n + limit.n - 1) \div limit.n)

\* ------------------------------------------------------------------------
\* getDashboardKPIs: its five queries, in the order it awaits them, and
\* the record it builds from their results
\* ------------------------------------------------------------------------
getDashboardKPIs_ventas ==
    Query(<<Tok("sum", "view_ventas_por_categoria")>>, <<>>, FALSE)

getDashboardKPIs_categoriaTop ==
    Query(<<SelectFrom("view_ventas_por_categoria"),
            Tok("limit", "LIMIT "), Lit(JSNumber(1))>>, <<>>, FALSE)

getDashboardKPIs_productoTop ==
    Query(<<SelectFrom("view_productos_mas_vendidos"),
            Tok("where", "ranking = "), Lit(JSNumber(1))>>, <<>>, FALSE)

\* the user count read from the table instead of the view
getDashboardKPIs_usuarios_tabla ==
    Query(<<CountFrom("usuarios")>>, <<>>, FALSE)

getDashboardKPIs_usuarios ==
    Query(<<CountFrom("view_usuarios_con_compras")>>, <<>>, FALSE)

getDashboardKPIs_productos ==
    Query(<<CountFrom("view_productos_mas_vendidos")>>, <<>>, FALSE)

getDashboardKPIs_queries ==
    <<getDashboardKPIs_ventas, getDashboardKPIs_categoriaTop,
      getDashboardKPIs_productoTop, getDashboardKPIs_usuarios,
      getDashboardKPIs_productos>>

\* Number(v) of a string or a number
Number(v) ==
    IF v.t = "number" THEN v.n
    ELSE IF v.t = "string" /\ ~ToNumber(v.s).nan /\ ToNumber(v.s).isInt
    THEN ToNumber(v.s).val
    ELSE 0

\* rows[0]?.total_ventas || 0
TotalVentasOr0(rows) ==
    IF Len(rows) >= 1 /\ Truthy(JSString(rows[1].total_ventas))
    THEN JSString(rows[1].total_ventas) ELSE JSNumber(0)

\* rows[0]?.total_ordenes || 0
TotalOrdenesOr0(rows) ==
    IF Len(rows) >= 1 /\ Truthy(JSString(rows[1].total_ordenes))
    THEN JSString(rows[1].total_ordenes) ELSE JSNumber(0)

NA == <<"N", "/", "A">>

\* a quotient of two numbers, kept exact
Quotient(num, den) == [num |-> num, den |-> den]

\* totalOrdenes > 0 ? Number(totalVentas) / Number(totalOrdenes) : 0
TicketPromedio(totalVentas, totalOrdenes) ==
    IF Number(totalOrdenes) > 0
    THEN Quotient(Number(totalVentas), Number(totalOrdenes))
    ELSE Quotient(0, 1)

\* the record getDashboardKPIs returns; rs holds the rows of ventasResult,
\* categoriaTop, productoTop, usuariosResult and productosResult
DashboardKPIs(rs) ==
    [totalVentas |-> Number(TotalVentasOr0(rs[1])),
     totalOrdenes |-> Number(TotalOrdenesOr0(rs[1])),
     totalProductos |-> parseInt(rs[5]).n,
     totalUsuarios |-> parseInt(rs[4]).n,
     ticketPromedio |->
         TicketPromedio(TotalVentasOr0(rs[1]), TotalOrdenesOr0(rs[1])),
     categoriaTop |-> IF Len(rs[2]) >= 1
                      THEN ToDigits(rs[2][1].categoria_id) ELSE NA,
     productoTop |-> IF Len(rs[3]) >= 1
                     THEN ToDigits(rs[3][1].producto_id) ELSE NA]

\* ------------------------------------------------------------------------
\* The raw request parameters enumerated by the model
\* ------------------------------------------------------------------------
RawOf(key) ==
    CASE key = "page" ->
            { RawStr(<<"1">>), RawStr(<<"2">>), RawStr(<<"3">>),
              RawStr(<<"0">>), RawStr(<<"-","1">>), RawStr(<<"a","b","c">>),
              RawStr(<<"1",".","5">>), RawStr(<<>>), RawStr(<<" ","2">>),
              RawStr(<<"2",".","0">>),
              RawArr(<< <<"2">>, <<"a","b","c">> >>), RawArr(<<>>), RawUndef }
      [] key = "limit" ->
            { RawStr(<<"1">>), RawStr(<<"2">>), RawStr(<<"1","0","0">>),
              RawStr(<<"1","0","1">>), RawStr(<<"5","0","0">>),
              RawStr(<<"0">>), RawStr(<<"a","b","c">>), RawStr(<<"1","e","1">>) }
      [] key = "topN" ->
            { RawStr(<<"1">>), RawStr(<<"5">>), RawStr(<<"5","0">>),
              RawStr(<<"5","1">>), RawStr(<<"0">>), RawStr(<<"2",".","5">>),
              RawStr(<<"t","o","p">>) }
      [] key \in {"startDate", "endDate"} ->
            { RawStr(<<"2","0","2","6","-","0","1","-","0","1">>),
              RawStr(<<"2","0","2","6","-","0","1","-","0","2">>),
              RawStr(<<"2","0","2","6","-","1","3","-","4","5">>),
              RawStr(<<"2","0","2","6","-","1","-","2">>),
              RawStr(<<"h","o","y">>), RawStr(<<>>) }
      [] key = "status" ->
            { RawStr(Pendiente), RawStr(Pagado),
              RawStr(<<"e","n","t","r","e","g","a","d","o">>),
              RawStr(<<"P","a","g","a","d","o">>),
              RawStr(<<"p","a","g","a","d","o"," ">>),
              RawStr(<<"x">>), RawStr(<<>>) }
      [] key = "categoriaId" ->
            { RawStr(<<"1">>), RawStr(<<"7">>), RawStr(<<"0">>),
              RawStr(<<"-","3">>), RawStr(<<"1",".","5">>),
              RawStr(<<"c","a","t">>), RawStr(<<>>) }

RawDate1 == RawStr(<<"2","0","2","6","-","0","1","-","0","1">>)
RawDate2 == RawStr(<<"2","0","2","6","-","0","1","-","0","2">>)

\* the values of RawOf that whole requests are built from
RequestValues(key) ==
    CASE key = "page" ->
            { RawStr(<<"1">>), RawStr(<<"2">>), RawStr(<<"3">>),
              RawStr(<<"0">>), RawStr(<<"a","b","c">>),
              RawArr(<< <<"2">>, <<"a","b","c">> >>) }
      [] key = "limit" ->
            { RawStr(<<"1">>), RawStr(<<"2">>), RawStr(<<"1","0","0">>),
              RawStr(<<"5","0","0">>), RawStr(<<"a","b","c">>) }
      [] key = "topN" ->
            { RawStr(<<"1">>), RawStr(<<"5">>), RawStr(<<"5","1">>),
              RawStr(<<"t","o","p">>) }
      [] key \in {"startDate", "endDate"} ->
            { RawStr(<<"2","0","2","6","-","0","1","-","0","1">>),
              RawStr(<<"2","0","2","6","-","0","1","-","0","2">>),
              RawStr(<<"2","0","2","6","-","1","3","-","4","5">>),
              RawStr(<<>>) }
      [] key = "status" ->
            { RawStr(Pendiente),
              RawStr(<<"e","n","t","r","e","g","a","d","o">>),
              RawStr(<<"x">>), RawStr(<<>>) }
      [] key = "categoriaId" -> { RawStr(<<"1">>), RawStr(<<"0">>) }

NoParams == [k \in {} |-> RawUndef]

\* parameters a request may carry besides those of the schema applied:
\* names no schema has, and names and values of the other schemas
ExtraParams ==
    { NoParams,
      [k \in {"foo", "Limit"} |->
          IF k = "foo" THEN RawArr(<< <<"a">>, <<"b">> >>)
          ELSE RawStr(<<"5","0","0">>)],
      [k \in {"page", "limit"} |-> RawStr(<<"a","b","c">>)],
      [k \in {"topN", "status"} |->
          IF k = "topN" THEN RawStr(<<"9","9">>) ELSE RawStr(<<"x">>)] }

\* the extra parameters none of which the schema recognizes
Unrecognized(schema) ==
    {f \in ExtraParams : DOMAIN f \cap SchemaKeys(schema) = {}}

\* the request sp with the parameters of extra added
WithParams(sp, extra) ==
    [k \in DOMAIN sp \cup DOMAIN extra |->
        IF k \in DOMAIN sp THEN sp[k] ELSE extra[k]]

\* every request that gives each key of keys a raw value or leaves it out
\* (wide: from all of RawOf, otherwise from RequestValues)
RECURSIVE SearchParamsOver(_, _)
SearchParamsOver(keys, wide) ==
    IF keys = {} THEN {NoParams}
    ELSE LET k == CHOOSE x \in keys : TRUE
             rest == SearchParamsOver(keys \ {k}, wide)
             vals == IF wide THEN RawOf(k) ELSE RequestValues(k)
         IN  rest \cup
             { [x \in DOMAIN f \cup {k} |-> IF x = k THEN v ELSE f[x]] :
                 <<f, v>> \in rest \X vals }

\* the schemas each report handler applies, in the order it applies them
SchemasOf(id) ==
    CASE id = 1 -> <<>>
      [] id = 2 -> <<"TopNSchema", "PaginationSchema">>
      [] id = 3 -> <<"PaginationSchema">>
      [] id = 4 -> <<"OrderStatusSchema">>
      [] id = 5 -> <<"DateRangeSchema", "PaginationSchema">>

KeysOf(id) == UNION {SchemaKeys(SchemasOf(id)[i]) : i \in 1 .. Len(SchemasOf(id))}

\* ------------------------------------------------------------------------
\* State
\* ------------------------------------------------------------------------
VARIABLES
    db,            \* the base tables
    pc,            \* where the request is: idle, render, count, fetch,
                   \* done, rejected (validation threw), failed (query threw)
    reporte,       \* the report id of the request
    searchParams,  \* its raw search parameters
    args,          \* the validated values the handler destructured
    whereClause,   \* getResumenDaily: let whereClause
    params,        \* getResumenDaily: const params (a mutable array)
    paramIndex,    \* getResumenDaily: let paramIndex
    total,         \* const total of the paginated functions
    offset,        \* const offset of the paginated functions
    sent,          \* the queries handed to query() by this request
    wire,          \* what the database received: [text, values]
    outcome,       \* what the handler got back
    parsed,        \* the last call of parseSearchParams made on its own
    results,       \* the results getDashboardKPIs has awaited so far
    requests,      \* the requests being served side by side
    pool           \* the connection pool of lib/db.ts

vars == <<db, pc, reporte, searchParams, args, whereClause, params,
          paramIndex, total, offset, sent, wire, outcome, parsed, results,
          requests, pool>>

poolVars == <<requests, pool>>

\* the requests served side by side
NumRequests == 2

\* a request slot nobody is using: no gateway function running, no query
\* left to issue, none in flight, no client held
NoRequest == [fn |-> "", queries |-> 0, inFlight |-> 0, held |-> 0]

\* max: 10
PoolMax == 10

\* new Pool({...}): no client is open yet
NewPool == [clients |-> 0, idle |-> 0]

ArgNames == {"topN", "page", "limit", "startDate", "endDate", "status"}
NoArgs == [k \in ArgNames |-> Undefined]
NoOutcome == [kind |-> "none", data |-> <<>>, total |-> Undefined,
              totalPages |-> Undefined]
NotParsed == [schema |-> "", searchParams |-> NoParams, ok |-> FALSE,
              data |-> NoParams]

\* no request is being served
Idle ==
    /\ pc = "idle"
    /\ reporte = 0
    /\ searchParams = NoParams
    /\ args = NoArgs
    /\ whereClause = <<>>
    /\ params = <<>>
    /\ paramIndex = 1
    /\ total = Undefined
    /\ offset = Undefined
    /\ sent = <<>>
    /\ wire = <<>>
    /\ outcome = NoOutcome
    /\ parsed = NotParsed
    /\ results = <<>>
    /\ requests = [r \in 1 .. NumRequests |-> NoRequest]
    /\ pool = NewPool

Init == db \in Fixtures /\ Idle

gatewayLocals == <<whereClause, params, paramIndex, total, offset>>

\* ------------------------------------------------------------------------
\* ReportePage: a request for /reports/[id] arrives
\* ------------------------------------------------------------------------
Request(id, sp) ==
    /\ pc = "idle"
    /\ pc' = "render"
    /\ reporte' = id
    /\ searchParams' = sp
    /\ UNCHANGED <<db, results, poolVars, args, gatewayLocals, sent, wire, outcome, parsed>>

\* validation threw: nothing else of the handler runs
Rejected ==
    /\ pc' = "rejected"
    /\ outcome' = [NoOutcome EXCEPT !.kind = "rejected"]
    /\ UNCHANGED <<db, results, poolVars, reporte, searchParams, args, gatewayLocals, sent,
                   wire, parsed>>

\* the handler calls a gateway function, which hands q to query()
Issue1(q, next) ==
    /\ sent' = Append(sent, q)
    /\ pc' = next

Reporte1VentasCategoria ==
    /\ pc = "render" /\ reporte = 1
    /\ Issue1(getVentasPorCategoria_query, "fetch")
    /\ UNCHANGED <<db, results, poolVars, reporte, searchParams, args, gatewayLocals, wire,
                   outcome, parsed>>

\* the handler destructures the validated values and calls the gateway
\* function, which runs up to its first await
Call(validated, q, next) ==
    /\ args' = validated
    /\ Issue1(q, next)
    /\ UNCHANGED <<db, results, poolVars, reporte, searchParams, gatewayLocals, wire, outcome,
                   parsed>>

Reporte2Validated(r1, r2) ==
    IF ~r1.ok \/ ~r2.ok THEN Rejected
    ELSE Call([NoArgs EXCEPT !.topN = r1.data.topN, !.page = r2.data.page,
                             !.limit = r2.data.limit],
              getProductosMasVendidos_count(r1.data.topN), "count")

Reporte2ProductosTop ==
    /\ pc = "render" /\ reporte = 2
    /\ Reporte2Validated(parseSearchParams(searchParams, "TopNSchema"),
                         parseSearchParams(searchParams, "PaginationSchema"))

Reporte3Validated(r) ==
    IF ~r.ok THEN Rejected
    ELSE Call([NoArgs EXCEPT !.page = r.data.page, !.limit = r.data.limit],
              getUsuariosConCompras_count, "count")

Reporte3Usuarios ==
    /\ pc = "render" /\ reporte = 3
    /\ Reporte3Validated(parseSearchParams(searchParams, "PaginationSchema"))

Reporte4Validated(r) ==
    IF ~r.ok THEN Rejected
    ELSE Call([NoArgs EXCEPT !.status = r.data.status],
              getOrdenesPorStatus_query(r.data.status), "fetch")

Reporte4OrdenesPorStatus ==
    /\ pc = "render" /\ reporte = 4
    /\ Reporte4Validated(parseSearchParams(searchParams, "OrderStatusSchema"))

\* getResumenDaily_start pushing limit and offset before the count
getResumenDaily_start_pushFirst(validated, w) ==
    /\ args' = validated
    /\ whereClause' = w.whereClause
    /\ params' = w.params \o <<validated.limit,
                               Offset(validated.page, validated.limit)>>
    /\ paramIndex' = w.paramIndex
    /\ sent' = Append(sent, getResumenDaily_count(w))
    /\ pc' = "count"
    /\ UNCHANGED <<db, results, poolVars, reporte, searchParams, total, offset, wire, outcome,
                   parsed>>

\* getResumenDaily_start issuing the count and the fetch together
\* (Promise.all) instead of awaiting the count first
getResumenDaily_start_concurrent(validated, w) ==
    /\ args' = validated
    /\ whereClause' = w.whereClause
    /\ params' = w.params \o <<validated.limit,
                               Offset(validated.page, validated.limit)>>
    /\ paramIndex' = w.paramIndex
    /\ sent' = sent \o
               << Query(getResumenDaily_count(w).text, w.params, FALSE),
                  getResumenDaily_fetch(w, w.params \o
                      <<validated.limit,
                        Offset(validated.page, validated.limit)>>) >>
    /\ pc' = "count"
    /\ UNCHANGED <<db, results, poolVars, reporte, searchParams, total, offset, wire, outcome,
                   parsed>>

\* getResumenDaily up to its first await: w is what lines 184-203 built
getResumenDaily_start(validated, w) ==
    /\ args' = validated
    /\ whereClause' = w.whereClause
    /\ params' = w.params
    /\ paramIndex' = w.paramIndex
    /\ Issue1(getResumenDaily_count(w), "count")
    /\ UNCHANGED <<db, results, poolVars, reporte, searchParams, total, offset, wire, outcome,
                   parsed>>

\* Reporte5Validated checking the first schema only
Reporte5Validated_firstSchemaOnly(r1, r2) ==
    IF ~r1.ok THEN Rejected
    ELSE getResumenDaily_start(
             [NoArgs EXCEPT !.startDate = r1.data.startDate,
                            !.endDate = r1.data.endDate,
                            !.page = JSNumber(1), !.limit = JSNumber(10)],
             getResumenDaily_where(r1.data.startDate, r1.data.endDate))

Reporte5Validated(r1, r2) ==
    IF ~r1.ok \/ ~r2.ok THEN Rejected
    ELSE getResumenDaily_start(
             [NoArgs EXCEPT !.startDate = r1.data.startDate,
                            !.endDate = r1.data.endDate,
                            !.page = r2.data.page, !.limit = r2.data.limit],
             getResumenDaily_where(r1.data.startDate, r1.data.endDate))

Reporte5VentasDiarias ==
    /\ pc = "render" /\ reporte = 5
    /\ Reporte5Validated(parseSearchParams(searchParams, "DateRangeSchema"),
                         parseSearchParams(searchParams, "PaginationSchema"))

\* ------------------------------------------------------------------------
\* query(): the pool runs the pending query once.  The values the driver
\* sends are those of the array it was given, as that array is now.
\* ------------------------------------------------------------------------
Pending == sent[Len(sent)]
PendingValues == IF Pending.ref THEN params ELSE Pending.params
Received == Append(wire, [text |-> Pending.text, values |-> PendingValues])

\* query() swallowing the error: the gateway function goes on and returns
\* what it has
Threw_swallowed ==
    /\ pc' = "done"
    /\ outcome' = [NoOutcome EXCEPT !.kind = "ok", !.total = total]
    /\ UNCHANGED <<db, results, poolVars, reporte, searchParams, args, gatewayLocals, sent,
                   parsed>>

\* the query threw (the statement failed): query() rethrows, the gateway
\* function and the handler do not catch
Threw ==
    /\ pc' = "failed"
    /\ outcome' = [NoOutcome EXCEPT !.kind = "failed"]
    /\ UNCHANGED <<db, results, poolVars, reporte, searchParams, args, gatewayLocals, sent,
                   parsed>>

\* the connection could not be obtained: nothing reaches the database
QueryFails ==
    /\ pc \in {"count", "fetch", "kpis", "query"}
    /\ Threw
    /\ UNCHANGED wire

getProductosMasVendidos ==
    /\ pc = "count" /\ reporte = 2
    /\ wire' = Received
    /\ \E res \in ExecQuery(db, Pending.text, PendingValues) :
        IF ~res.ok THEN Threw
        ELSE /\ total' = parseInt(res.rows)
             /\ offset' = Offset(args.page, args.limit)
             /\ Issue1(getProductosMasVendidos_fetch(
                           args.topN, args.limit,
                           Offset(args.page, args.limit)), "fetch")
             /\ UNCHANGED <<db, results, poolVars, reporte, searchParams, args, whereClause,
                            params, paramIndex, outcome, parsed>>

getUsuariosConCompras ==
    /\ pc = "count" /\ reporte = 3
    /\ wire' = Received
    /\ \E res \in ExecQuery(db, Pending.text, PendingValues) :
        IF ~res.ok THEN Threw
        ELSE /\ total' = parseInt(res.rows)
             /\ offset' = Offset(args.page, args.limit)
             /\ Issue1(getUsuariosConCompras_fetch(
                           args.limit, Offset(args.page, args.limit)), "fetch")
             /\ UNCHANGED <<db, results, poolVars, reporte, searchParams, args, whereClause,
                            params, paramIndex, outcome, parsed>>

\* getResumenDaily after the count: params.push(limit, offset) and the fetch
getResumenDaily_paginate(count, off) ==
    /\ total' = count
    /\ offset' = off
    /\ params' = params \o <<args.limit, off>>
    /\ Issue1(getResumenDaily_fetch(
                  [whereClause |-> whereClause, params |-> params,
                   paramIndex |-> paramIndex],
                  params \o <<args.limit, off>>), "fetch")
    /\ UNCHANGED <<db, results, poolVars, reporte, searchParams, args, whereClause, paramIndex,
                   outcome, parsed>>

getResumenDaily ==
    /\ pc = "count" /\ reporte = 5
    /\ wire' = Received
    /\ \E res \in ExecQuery(db, Pending.text, PendingValues) :
        IF ~res.ok THEN Threw
        ELSE getResumenDaily_paginate(parseInt(res.rows),
                                      Offset(args.page, args.limit))

\* the last query of the gateway function resolves; the function returns
\* and the handler computes totalPages
Returns ==
    /\ pc = "fetch"
    /\ wire' = Received
    /\ \E res \in ExecQuery(db, Pending.text, PendingValues) :
        IF ~res.ok THEN Threw
        ELSE /\ pc' = "done"
             /\ outcome' =
                  IF reporte \in {2, 3, 5}
                  THEN [kind |-> "ok", data |-> res.rows, total |-> total,
                        totalPages |-> totalPages(total, args.limit)]
                  ELSE [NoOutcome EXCEPT !.kind = "ok", !.data = res.rows]
             /\ UNCHANGED <<db, results, poolVars, reporte, searchParams, args, gatewayLocals,
                            sent, parsed>>

\* DashboardPage: a request for / arrives; getDashboardKPIs hands its first
\* query to query()
DashboardPage ==
    /\ pc = "idle"
    /\ Issue1(getDashboardKPIs_queries[1], "kpis")
    /\ UNCHANGED <<db, results, poolVars, reporte, searchParams, args,
                   gatewayLocals, wire, outcome, parsed>>

\* one of the first four queries of getDashboardKPIs resolves and the next
\* one is handed to query()
getDashboardKPIs_await ==
    /\ pc = "kpis" /\ Len(results) < Len(getDashboardKPIs_queries) - 1
    /\ wire' = Received
    /\ \E res \in ExecQuery(db, Pending.text, PendingValues) :
        IF ~res.ok THEN Threw
        ELSE /\ results' = Append(results, res.rows)
             /\ Issue1(getDashboardKPIs_queries[Len(results) + 2], "kpis")
             /\ UNCHANGED <<db, poolVars, reporte, searchParams, args,
                            gatewayLocals, outcome, parsed>>

\* the fifth query resolves and getDashboardKPIs returns its record
getDashboardKPIs ==
    /\ pc = "kpis" /\ Len(results) = Len(getDashboardKPIs_queries) - 1
    /\ wire' = Received
    /\ \E res \in ExecQuery(db, Pending.text, PendingValues) :
        IF ~res.ok THEN Threw
        ELSE /\ pc' = "done"
             /\ results' = Append(results, res.rows)
             /\ outcome' = [NoOutcome EXCEPT
                               !.kind = "ok",
                               !.data = <<DashboardKPIs(
                                            Append(results, res.rows))>>]
             /\ UNCHANGED <<db, poolVars, reporte, searchParams, args,
                            gatewayLocals, sent, parsed>>

\* ------------------------------------------------------------------------
\* What lib/db.ts exports besides what the gateway functions use: query()
\* called by any other module, the pool itself, and testConnection
\* ------------------------------------------------------------------------
\* export async function query(text, params), called with a text of the
\* caller's own
query(text, ps) ==
    /\ pc = "idle"
    /\ Issue1(Query(text, ps, FALSE), "query")
    /\ UNCHANGED <<db, results, poolVars, reporte, searchParams, args,
                   gatewayLocals, wire, outcome, parsed>>

\* pool.query(text, params) inside query() resolves for that caller
query_resolves ==
    /\ pc = "query"
    /\ wire' = Received
    /\ \E res \in ExecQuery(db, Pending.text, PendingValues) :
        IF ~res.ok THEN Threw
        ELSE /\ pc' = "done"
             /\ outcome' = [NoOutcome EXCEPT !.kind = "ok", !.data = res.rows]
             /\ UNCHANGED <<db, results, poolVars, reporte, searchParams,
                            args, gatewayLocals, sent, parsed>>

\* export { pool }: a caller runs pool.query(text, params) itself
pool_query(text, ps) ==
    /\ pc = "idle"
    /\ wire' = Append(wire, [text |-> text, values |-> ps])
    /\ \E res \in ExecQuery(db, text, ps) :
        /\ pc' = IF res.ok THEN "done" ELSE "failed"
        /\ outcome' = [NoOutcome EXCEPT
                          !.kind = IF res.ok THEN "ok" ELSE "failed",
                          !.data = res.rows]
    /\ UNCHANGED <<db, results, poolVars, reporte, searchParams, args,
                   gatewayLocals, sent, parsed>>

\* testConnection(): true when SELECT 1 ran, false when it threw
testConnection ==
    /\ pc = "idle"
    /\ pc' = "done"
    /\ \/ /\ wire' = Append(wire, [text |-> SelectOne, values |-> <<>>])
          /\ outcome' = [NoOutcome EXCEPT !.kind = "ok", !.data = <<TRUE>>]
       \/ /\ wire' = wire
          /\ outcome' = [NoOutcome EXCEPT !.kind = "ok", !.data = <<FALSE>>]
    /\ UNCHANGED <<db, results, poolVars, reporte, searchParams, args,
                   gatewayLocals, sent, parsed>>

\* the response is sent; the next request starts from a clean slate
Respond ==
    /\ pc \in {"done", "rejected", "failed"}
    /\ pc' = "idle"
    /\ reporte' = 0
    /\ searchParams' = NoParams
    /\ args' = NoArgs
    /\ whereClause' = <<>>
    /\ params' = <<>>
    /\ paramIndex' = 1
    /\ total' = Undefined
    /\ offset' = Undefined
    /\ sent' = <<>>
    /\ wire' = <<>>
    /\ outcome' = NoOutcome
    /\ results' = <<>>
    /\ UNCHANGED <<db, poolVars, parsed>>

Next ==
    \/ \E id \in 1 .. 5 : \E sp \in SearchParamsOver(KeysOf(id), FALSE) :
          Request(id, sp)
    \/ Reporte1VentasCategoria
    \/ Reporte2ProductosTop
    \/ Reporte3Usuarios
    \/ Reporte4OrdenesPorStatus
    \/ Reporte5VentasDiarias
    \/ DashboardPage
    \/ getDashboardKPIs_await
    \/ getDashboardKPIs
    \/ QueryFails
    \/ getProductosMasVendidos
    \/ getUsuariosConCompras
    \/ getResumenDaily
    \/ Returns
    \/ Respond

Spec == Init /\ [][Next]_vars

\* ------------------------------------------------------------------------
\* The reports over databases of every shape of Databases, requested with
\* valid parameters
\* ------------------------------------------------------------------------
ViewRequests(id) ==
    CASE id = 4 ->
            { NoParams,
              [k \in {"status"} |-> RawStr(Pendiente)],
              [k \in {"status"} |-> RawStr(Pagado)] }
      [] id = 5 ->
            { NoParams,
              [k \in {"startDate"} |-> RawDate2],
              [k \in {"endDate"} |-> RawDate1],
              [k \in {"limit"} |-> RawStr(<<"1">>)],
              [k \in {"limit", "page"} |->
                  IF k = "limit" THEN RawStr(<<"1">>) ELSE RawStr(<<"2">>)] }
      [] OTHER -> {NoParams}

InitViews == db \in Databases /\ Idle

NextViews ==
    \/ \E id \in 1 .. 5 : \E sp \in ViewRequests(id) : Request(id, sp)
    \/ Reporte1VentasCategoria
    \/ Reporte2ProductosTop
    \/ Reporte3Usuarios
    \/ Reporte4OrdenesPorStatus
    \/ Reporte5VentasDiarias
    \/ DashboardPage
    \/ getDashboardKPIs_await
    \/ getDashboardKPIs
    \/ QueryFails
    \/ getProductosMasVendidos
    \/ getUsuariosConCompras
    \/ getResumenDaily
    \/ Returns
    \/ Respond

SpecViews == InitViews /\ [][NextViews]_vars

\* ------------------------------------------------------------------------
\* The paginated reports while another session writes to the tables.  The
\* count and the fetch are two statements outside any transaction, so a
\* write committed between them is seen by the fetch only.
\* ------------------------------------------------------------------------
PageRequests ==
    { NoParams,
      [k \in {"limit"} |-> RawStr(<<"1">>)],
      [k \in {"limit", "page"} |->
          IF k = "limit" THEN RawStr(<<"1">>) ELSE RawStr(<<"2">>)],
      [k \in {"limit", "page"} |-> RawStr(<<"2">>)] }

\* the tables after another session's committed write: orders inserted
\* or deleted, or one more user
Writes(d) ==
    ((Fixtures \cup {[d EXCEPT !.usuarios = 1 .. (NumUsuarios + 1)]})
        \ {d})

Writer ==
    /\ pc = "fetch"
    /\ db' \in Writes(db)
    /\ UNCHANGED <<pc, reporte, searchParams, args, gatewayLocals, sent,
                   wire, outcome, parsed, results, poolVars>>

NextWriter ==
    \/ \E id \in {2, 3, 5} : \E sp \in PageRequests : Request(id, sp)
    \/ Reporte2ProductosTop
    \/ Reporte3Usuarios
    \/ Reporte5VentasDiarias
    \/ QueryFails
    \/ getProductosMasVendidos
    \/ getUsuariosConCompras
    \/ getResumenDaily
    \/ Writer
    \/ Returns
    \/ Respond

SpecWriter == Init /\ [][NextWriter]_vars

\* ------------------------------------------------------------------------
\* Requests served side by side over the one pool.  A request runs one
\* gateway function; the function hands its queries to query(), which
\* awaits pool.query(): a client is taken from the pool (an idle one, or a
\* new one while fewer than max are open), the statement runs on it, and
\* the client goes back to the pool.
\* ------------------------------------------------------------------------
GatewayFunctions ==
    {"getVentasPorCategoria", "getProductosMasVendidos",
     "getUsuariosConCompras", "getOrdenesPorStatus", "getResumenDaily",
     "getDashboardKPIs"}

\* the number of query() calls of a gateway function
QueriesOf(fn) ==
    CASE fn \in {"getVentasPorCategoria", "getOrdenesPorStatus"} -> 1
      [] fn \in {"getProductosMasVendidos", "getUsuariosConCompras",
                 "getResumenDaily"} -> 2
      [] fn = "getDashboardKPIs" -> Len(getDashboardKPIs_queries)

\* the queries handed over together, as Promise.all would
CanIssue_together(p) == p.queries > 0

\* every query is awaited before the next statement of the function runs
CanIssue(p) == p.queries > 0 /\ p.inFlight = 0

\* a request starts running gateway function fn
gateway_call(r, fn) ==
    /\ requests[r] = NoRequest
    /\ requests' = [requests EXCEPT ![r] =
                       [NoRequest EXCEPT !.fn = fn, !.queries = QueriesOf(fn)]]
    /\ UNCHANGED <<db, pc, reporte, searchParams, args, gatewayLocals, sent,
                   wire, outcome, parsed, results, pool>>

\* the function reaches `await query(...)`: pool.query is called
await_query(r) ==
    /\ CanIssue(requests[r])
    /\ requests' = [requests EXCEPT ![r].queries = @ - 1,
                                    ![r].inFlight = @ + 1]
    /\ UNCHANGED <<db, pc, reporte, searchParams, args, gatewayLocals, sent,
                   wire, outcome, parsed, results, pool>>

\* pool.query gets a client: an idle one, or a new one below max;
\* otherwise the call keeps waiting
pool_connect(r) ==
    /\ requests[r].inFlight > requests[r].held
    /\ pool.idle > 0 \/ pool.clients < PoolMax
    /\ pool' = IF pool.idle > 0 THEN [pool EXCEPT !.idle = @ - 1]
               ELSE [pool EXCEPT !.clients = @ + 1]
    /\ requests' = [requests EXCEPT ![r].held = @ + 1]
    /\ UNCHANGED <<db, pc, reporte, searchParams, args, gatewayLocals, sent,
                   wire, outcome, parsed, results>>

\* no client within connectionTimeoutMillis: pool.query rejects, query()
\* rethrows and the function ends
pool_connectTimeout(r) ==
    /\ requests[r].inFlight > requests[r].held
    /\ requests' = [requests EXCEPT ![r] =
                       IF @.inFlight = 1 THEN NoRequest
                       ELSE [@ EXCEPT !.inFlight = @ - 1, !.queries = 0]]
    /\ UNCHANGED <<db, pc, reporte, searchParams, args, gatewayLocals, sent,
                   wire, outcome, parsed, results, pool>>

\* the statement ends and the client goes back to the pool; the function
\* goes on when it succeeded (ok) and throws when it failed, and it is
\* over when nothing is left to issue or to wait for
query_returns(r, ok) ==
    /\ requests[r].held > 0
    /\ pool' = [pool EXCEPT !.idle = @ + 1]
    /\ requests' = [requests EXCEPT ![r] =
                       IF @.inFlight = 1 /\ (~ok \/ @.queries = 0)
                       THEN NoRequest
                       ELSE [@ EXCEPT !.inFlight = @ - 1, !.held = @ - 1,
                                      !.queries = IF ok THEN @ ELSE 0]]
    /\ UNCHANGED <<db, pc, reporte, searchParams, args, gatewayLocals, sent,
                   wire, outcome, parsed, results>>

\* idleTimeoutMillis: an idle client is closed
pool_idleTimeout ==
    /\ pool.idle > 0
    /\ pool' = [pool EXCEPT !.idle = @ - 1, !.clients = @ - 1]
    /\ UNCHANGED <<db, pc, reporte, searchParams, args, gatewayLocals, sent,
                   wire, outcome, parsed, results, requests>>

NextPool ==
    \/ \E r \in 1 .. NumRequests : \E fn \in GatewayFunctions :
          gateway_call(r, fn)
    \/ \E r \in 1 .. NumRequests : await_query(r)
    \/ \E r \in 1 .. NumRequests : pool_connect(r)
    \/ \E r \in 1 .. NumRequests : pool_connectTimeout(r)
    \/ \E r \in 1 .. NumRequests : \E ok \in BOOLEAN : query_returns(r, ok)
    \/ pool_idleTimeout

InitPool == Init /\ db = Fixture(0)

SpecPool == InitPool /\ [][NextPool]_vars

\* ------------------------------------------------------------------------
\* Any module of the application calling what lib/queries.ts and lib/db.ts
\* export: the gateway functions through the pages, and query(), pool and
\* testConnection directly
\* ------------------------------------------------------------------------
CallerTexts ==
    { getVentasPorCategoria_query.text,
      <<SelectFrom("view_ordenes_por_status")>>,
      <<SelectFrom("usuarios")>>,
      <<Tok("delete", "orden_detalles")>> }

NextExports ==
    \/ \E id \in 1 .. 5 : \E sp \in ViewRequests(id) : Request(id, sp)
    \/ Reporte1VentasCategoria
    \/ Reporte2ProductosTop
    \/ Reporte3Usuarios
    \/ Reporte4OrdenesPorStatus
    \/ Reporte5VentasDiarias
    \/ DashboardPage
    \/ getDashboardKPIs_await
    \/ getDashboardKPIs
    \/ \E text \in CallerTexts : query(text, <<>>)
    \/ query_resolves
    \/ \E text \in CallerTexts : pool_query(text, <<>>)
    \/ testConnection
    \/ QueryFails
    \/ getProductosMasVendidos
    \/ getUsuariosConCompras
    \/ getResumenDaily
    \/ Returns
    \/ Respond

SpecExports == Init /\ [][NextExports]_vars

\* ------------------------------------------------------------------------
\* The validator on its own: parseSearchParams applied to one schema
\* ------------------------------------------------------------------------
ParseSearchParams(schema, sp) ==
    /\ parsed' = [schema |-> schema, searchParams |-> sp,
                  ok |-> parseSearchParams(sp, schema).ok,
                  data |-> parseSearchParams(sp, schema).data]
    /\ UNCHANGED <<db, results, poolVars, pc, reporte, searchParams, args, gatewayLocals,
                   sent, wire, outcome>>

InitValidator == Init /\ db = Fixture(0)

NextValidator ==
    \E schema \in SchemaNames :
        \E sp \in SearchParamsOver(SchemaKeys(schema), TRUE) :
            \E extra \in Unrecognized(schema) :
                ParseSearchParams(schema, WithParams(sp, extra))

SpecValidator == InitValidator /\ [][NextValidator]_vars

\* ========================================================================
\* Properties
\* ========================================================================
Min(a, b) == IF a <= b THEN a ELSE b

\* the paginated reports
Paginated == {2, 3, 5}

\* the values bound to query i of the request: what the database received,
\* or, for a query not yet received, what its array holds now
SentValues(i) ==
    IF i <= Len(wire) THEN wire[i].values
    ELSE IF sent[i].ref THEN params ELSE sent[i].params

\* the value bound to the placeholder that follows the token of class kind
BoundAfter(i, kind) ==
    SentValues(i)[sent[i].text[(CHOOSE j \in 1 .. Len(sent[i].text) :
                                   sent[i].text[j].k = kind) + 1].n]

\* raw values that are not numeric, not an integer or out of range, and
\* statuses and dates outside the accepted sets
BadRaw(key) ==
    CASE key = "page" ->
            { RawStr(<<"0">>), RawStr(<<"-","1">>), RawStr(<<"a","b","c">>),
              RawStr(<<"1",".","5">>), RawStr(<<>>) }
      [] key = "limit" ->
            { RawStr(<<"1","0","1">>), RawStr(<<"5","0","0">>),
              RawStr(<<"0">>), RawStr(<<"a","b","c">>) }
      [] key = "topN" ->
            { RawStr(<<"5","1">>), RawStr(<<"0">>), RawStr(<<"2",".","5">>),
              RawStr(<<"t","o","p">>) }
      [] key = "categoriaId" ->
            { RawStr(<<"0">>), RawStr(<<"-","3">>), RawStr(<<"1",".","5">>),
              RawStr(<<"c","a","t">>), RawStr(<<>>) }
      [] key = "status" ->
            { RawStr(<<"P","a","g","a","d","o">>),
              RawStr(<<"p","a","g","a","d","o"," ">>), RawStr(<<"x">>),
              RawStr(<<>>) }
      [] key \in {"startDate", "endDate"} ->
            { RawStr(<<"2","0","2","6","-","1","-","2">>),
              RawStr(<<"h","o","y">>), RawStr(<<>>) }

\* C1: in every paginated gateway function, for the validated page >= 1 and
\* limit in 1..100, the value bound to the OFFSET placeholder of the fetch
\* query is (page - 1) * limit, and it is >= 0.
C1_OffsetIsPageMinusOneTimesLimit ==
    (reporte \in Paginated /\ Len(sent) = 2) =>
        /\ args.page.n >= 1
        /\ args.limit.n \in 1 .. 100
        /\ BoundAfter(2, "offset") = JSNumber((args.page.n - 1) * args.limit.n)
        /\ BoundAfter(2, "offset").n >= 0
        /\ offset = BoundAfter(2, "offset")

C1_Witness ==
    /\ reporte = 5 /\ pc = "fetch"
    /\ args.page = JSNumber(3) /\ args.limit = JSNumber(100)
    /\ BoundAfter(2, "offset") = JSNumber(200)

\* C3: in the handlers of reports 2, 3, 4 and 5, when a parameter of a
\* schema the handler applies has an invalid value, no query is handed to
\* query() and nothing reaches the database, whichever schema it is in.
C3_InvalidMeansNoQuery ==
    (/\ reporte \in 2 .. 5
     /\ \E k \in KeysOf(reporte) \cap DOMAIN searchParams :
            searchParams[k] \in BadRaw(k))
    => (sent = <<>> /\ wire = <<>> /\ pc \in {"render", "rejected"})

C3_Witness ==
    /\ reporte = 5 /\ pc = "rejected"
    /\ "startDate" \in DOMAIN searchParams /\ searchParams["startDate"] = RawDate1
    /\ "limit" \in DOMAIN searchParams
    /\ searchParams["limit"] = RawStr(<<"5","0","0">>)
    /\ sent = <<>>

\* C4: in every query of getResumenDaily the placeholders are numbered
\* 1..n in order of appearance, n is the number of values bound, the
\* start-date predicate is there iff startDate is given and comes before
\* the end-date predicate, and each placeholder is bound to its own value
\* (startDate, endDate, limit, offset).
PhPositions(text) == {j \in 1 .. Len(text) : text[j].k = "ph"}
PredPositions(text, col) ==
    {j \in 1 .. Len(text) : text[j].k \in {"where", "and"} /\ text[j].s = col}

C4_DailyQueryWellNumbered(i) ==
    LET text == sent[i].text
        desde == PredPositions(text, "fecha >= ")
        hasta == PredPositions(text, "fecha <= ")
    IN  /\ \A j \in PhPositions(text) :
               text[j].n = Cardinality({x \in PhPositions(text) : x <= j})
        /\ Len(SentValues(i)) = Cardinality(PhPositions(text))
        /\ Cardinality(desde) = (IF args.startDate # Undefined THEN 1 ELSE 0)
        /\ Cardinality(hasta) = (IF args.endDate # Undefined THEN 1 ELSE 0)
        /\ \A a \in desde : \A b \in hasta : a < b
        /\ \A j \in desde : /\ text[j + 1].k = "ph"
                            /\ SentValues(i)[text[j + 1].n] = args.startDate
        /\ \A j \in hasta : /\ text[j + 1].k = "ph"
                            /\ SentValues(i)[text[j + 1].n] = args.endDate
        /\ \A j \in 1 .. Len(text) :
               /\ text[j].k = "limit" =>
                      /\ text[j + 1].k = "ph"
                      /\ SentValues(i)[text[j + 1].n] = args.limit
               /\ text[j].k = "offset" =>
                      /\ text[j + 1].k = "ph"
                      /\ SentValues(i)[text[j + 1].n] =
                             JSNumber((args.page.n - 1) * args.limit.n)
        /\ Cardinality({j \in 1 .. Len(text) : text[j].k \in {"where"}}) <= 1
        /\ \A j \in 1 .. Len(text) :
               text[j].k = "and" => \E x \in 1 .. j - 1 : text[x].k = "where"

C4_PlaceholdersAligned ==
    reporte = 5 => \A i \in 1 .. Len(sent) : C4_DailyQueryWellNumbered(i)

C4_Witness ==
    /\ reporte = 5 /\ pc = "done"
    /\ args.startDate = Undefined /\ args.endDate # Undefined
    /\ Len(wire) = 2
    /\ Len(wire[2].values) = 3
    /\ wire[2].values[1] = args.endDate

\* C5: in every paginated gateway function the count query carries the
\* predicate clause of the fetch query and exactly the values of that
\* clause, and the fetch query carries those values followed by limit and
\* offset, bound to its last two placeholders.
ClauseOf(text) ==
    SubSeq(text, 2,
           IF \E j \in 1 .. Len(text) : text[j].k = "order"
           THEN (CHOOSE j \in 1 .. Len(text) : text[j].k = "order") - 1
           ELSE Len(text))

C5_CountMatchesFetch ==
    (reporte \in Paginated /\ sent # <<>>) =>
        /\ sent[1].text[1].k = "count"
        /\ Len(SentValues(1)) = Cardinality(PhPositions(ClauseOf(sent[1].text)))
        /\ Len(sent) = 2 =>
            /\ sent[2].text[1] = SelectFrom(sent[1].text[1].s)
            /\ ClauseOf(sent[2].text) = ClauseOf(sent[1].text)
            /\ SentValues(2) = SentValues(1) \o <<args.limit, offset>>
            /\ SentValues(2) = wire[1].values \o <<args.limit, offset>>
            /\ LET n == Len(SentValues(2))
                   t == sent[2].text
               IN  /\ t[Len(t) - 3].k = "limit" /\ t[Len(t) - 2] = Ph(n - 1)
                   /\ t[Len(t) - 1].k = "offset" /\ t[Len(t)] = Ph(n)

C5_Witness ==
    /\ reporte = 5 /\ pc = "done"
    /\ args.startDate # Undefined /\ args.endDate # Undefined
    /\ wire[1].values = <<args.startDate, args.endDate>>
    /\ wire[2].values = <<args.startDate, args.endDate, args.limit, offset>>

\* C2: a raw page, limit, topN or categoriaId that is not numeric, not an
\* integer or out of range, and a status outside the five accepted ones,
\* makes parseSearchParams fail: no output is returned in which the value
\* was replaced by a limit of the range or by the default.
C2_RejectsNeverClamps ==
    parsed.schema # "" =>
        \A k \in (SchemaKeys(parsed.schema) \cap DOMAIN parsed.searchParams)
                 \ {"startDate", "endDate"} :
            parsed.searchParams[k] \in BadRaw(k) =>
                /\ ~parsed.ok
                /\ parsed.data[k] = Undefined

C2_Witness ==
    /\ parsed.schema = "PaginationSchema"
    /\ DOMAIN parsed.searchParams = {"limit"}
    /\ parsed.searchParams["limit"] = RawStr(<<"5","0","0">>)
    /\ ~parsed.ok

\* C6: the text of every query a gateway function sends is the same for
\* any other argument values with the same filters given: it holds no
\* literal and does not depend on topN, page, limit, status, startDate or
\* endDate, only on which filters are present.
OtherArgs ==
    [topN : {JSNumber(7)}, page : {JSNumber(1), JSNumber(4)},
     limit : {JSNumber(3)},
     startDate : {Undefined, JSString(<<"1","9","9","9","-","1","2","-","3","1">>)},
     endDate : {Undefined, JSString(<<"2","0","3","0","-","0","6","-","1","5">>)},
     status : {Undefined, JSString(Enviado)}]

SamePresence(a, b) ==
    \A k \in {"startDate", "endDate", "status"} :
        (a[k] = Undefined) <=> (b[k] = Undefined)

\* the texts the gateway function of report id sends for the arguments a
GatewayTexts(id, a) ==
    CASE id = 1 -> <<getVentasPorCategoria_query.text>>
      [] id = 2 ->
            <<getProductosMasVendidos_count(a.topN).text,
              getProductosMasVendidos_fetch(a.topN, a.limit,
                                            Offset(a.page, a.limit)).text>>
      [] id = 3 ->
            <<getUsuariosConCompras_count.text,
              getUsuariosConCompras_fetch(a.limit,
                                          Offset(a.page, a.limit)).text>>
      [] id = 4 -> <<getOrdenesPorStatus_query(a.status).text>>
      [] id = 5 ->
            <<getResumenDaily_count(
                  getResumenDaily_where(a.startDate, a.endDate)).text,
              getResumenDaily_fetch(
                  getResumenDaily_where(a.startDate, a.endDate), <<>>).text>>

C6_TextIndependentOfValues ==
    (reporte \in 1 .. 5 /\ sent # <<>>) =>
        /\ \A i \in 1 .. Len(sent) : \A j \in 1 .. Len(sent[i].text) :
               sent[i].text[j].k # "lit" /\ sent[i].text[j].v = Undefined
        /\ \A a \in OtherArgs :
               SamePresence(a, args) =>
                   \A i \in 1 .. Len(sent) :
                       sent[i].text = GatewayTexts(reporte, a)[i]

C6_Witness ==
    /\ reporte = 4 /\ pc = "done"
    /\ args.status = JSString(Pendiente)
    /\ wire[1].values = <<JSString(Pendiente)>>
    /\ wire[1].text = getOrdenesPorStatus_query(JSString(Enviado)).text

\* C7: getProductosMasVendidos(topN, page, limit) over a ranking view of N
\* rows returns total = min(topN, N) and exactly the rows of ranks
\* offset+1 .. min(offset+limit, min(topN, N)), in ascending rank order.
RanksOf(data) == [i \in 1 .. Len(data) |-> data[i].ranking]

C7_TopNPage ==
    (reporte = 2 /\ pc = "done") =>
        LET N == Cardinality(ProductosVendidos(db))
            shown == Min(args.topN.n, N)
            off == (args.page.n - 1) * args.limit.n
            last == Min(off + args.limit.n, shown)
        IN  /\ outcome.total = JSNumber(shown)
            /\ RanksOf(outcome.data) =
                   [i \in 1 .. (IF last > off THEN last - off ELSE 0) |-> off + i]
            /\ \A i \in 1 .. Len(outcome.data) :
                   /\ outcome.data[i].producto_id \in ProductosVendidos(db)
                   /\ outcome.data[i].cantidad_vendida =
                          CantidadVendida(db, outcome.data[i].producto_id)

C7_Witness ==
    /\ reporte = 2 /\ pc = "done"
    /\ args.topN = JSNumber(5) /\ args.page = JSNumber(2)
    /\ args.limit = JSNumber(2)
    /\ offset = JSNumber(2)
    /\ RanksOf(outcome.data) = <<3, 4>>
    /\ outcome.total = JSNumber(5)

\* C8: the page is not clamped.  For a valid page beyond ceil(total / limit)
\* the fetch is still sent with offset (page - 1) * limit, it returns no
\* row, total is still the number of matching rows, and the handler's
\* total pages is ceil(total / limit).
MatchCount ==
    CASE reporte = 2 -> Min(args.topN.n, Cardinality(ProductosVendidos(db)))
      [] reporte = 3 -> Cardinality(db.usuarios)
      [] reporte = 5 ->
            Cardinality({f \in {DATE(o.created_at) : o \in db.ordenes} :
                /\ args.startDate # Undefined => f >= DateCast(args.startDate).val
                /\ args.endDate # Undefined => f <= DateCast(args.endDate).val})

C8_PageNotClamped ==
    (reporte \in Paginated /\ pc = "done") =>
        /\ outcome.total = JSNumber(MatchCount)
        /\ outcome.totalPages.n * args.limit.n >= MatchCount
        /\ (outcome.totalPages.n - 1) * args.limit.n < MatchCount
        /\ outcome.totalPages.n >= 0
        /\ args.page.n > outcome.totalPages.n =>
            /\ Len(wire) = 2
            /\ BoundAfter(2, "offset") =
                   JSNumber((args.page.n - 1) * args.limit.n)
            /\ outcome.data = <<>>

C8_Witness ==
    /\ reporte = 3 /\ pc = "done"
    /\ args.page = JSNumber(3) /\ args.limit = JSNumber(2)
    /\ outcome.total = JSNumber(3)
    /\ outcome.totalPages = JSNumber(2)
    /\ outcome.data = <<>>
    /\ wire[2].values = <<JSNumber(2), JSNumber(4)>>

\* C9: a parameter that is absent gets page = 1, limit = 10, topN = 10;
\* an absent startDate, endDate, status or categoriaId is undefined in the
\* output; absence never makes validation fail, and startDate and endDate
\* validate in each of their four presence combinations.
IsAbsent(sp, k) ==
    \/ k \notin DOMAIN sp
    \/ sp[k].t = "undefined"
    \/ sp[k].t = "array" /\ sp[k].a = <<>>

DefaultOf(k) ==
    CASE k = "page" -> JSNumber(1)
      [] k \in {"limit", "topN"} -> JSNumber(10)
      [] OTHER -> Undefined

C9_DefaultsAndAbsence ==
    parsed.schema # "" =>
        LET sp == parsed.searchParams
            keys == SchemaKeys(parsed.schema)
        IN  /\ parsed.ok =>
                \A k \in keys : IsAbsent(sp, k) => parsed.data[k] = DefaultOf(k)
            /\ (\A k \in keys : IsAbsent(sp, k)) => parsed.ok
            /\ (/\ parsed.schema = "DateRangeSchema"
                /\ \A k \in keys : IsAbsent(sp, k) \/ sp[k] \in {RawDate1, RawDate2})
               => /\ parsed.ok
                  /\ \A k \in keys :
                         ~IsAbsent(sp, k) => parsed.data[k] = JSString(sp[k].a[1])

C9_Witness ==
    /\ parsed.schema = "DateRangeSchema"
    /\ DOMAIN parsed.searchParams = {"endDate"}
    /\ parsed.searchParams["endDate"] = RawDate2
    /\ parsed.ok
    /\ parsed.data["startDate"] = Undefined
    /\ parsed.data["endDate"] = JSString(RawDate2.a[1])

\* C10: validation is atomic per schema: when one field of the schema is
\* invalid parseSearchParams fails whatever the other fields hold, and no
\* field of an output is available, valid or not.
C10_AtomicPerSchema ==
    parsed.schema # "" =>
        ((\E k \in SchemaKeys(parsed.schema) \cap DOMAIN parsed.searchParams :
             parsed.searchParams[k] \in BadRaw(k))
         => /\ ~parsed.ok
            /\ \A k \in SchemaKeys(parsed.schema) : parsed.data[k] = Undefined)

C10_Witness ==
    /\ parsed.schema = "PaginationSchema"
    /\ DOMAIN parsed.searchParams = {"page", "limit"}
    /\ parsed.searchParams["page"] = RawStr(<<"2">>)
    /\ parsed.searchParams["limit"] = RawStr(<<"a","b","c">>)
    /\ ~parsed.ok
    /\ parsed.data["page"] = Undefined

\* C11: parameters whose names are not in the schema applied are ignored:
\* a request with unrecognized parameters validates exactly when the same
\* request without them does, and to the same output, whose fields are
\* the schema's own and no other.
Recognized(sp, schema) ==
    [k \in DOMAIN sp \cap SchemaKeys(schema) |-> sp[k]]

C11_UnrecognizedIgnored ==
    parsed.schema # "" =>
        /\ parsed.ok =
               parseSearchParams(Recognized(parsed.searchParams, parsed.schema),
                                 parsed.schema).ok
        /\ parsed.data =
               parseSearchParams(Recognized(parsed.searchParams, parsed.schema),
                                 parsed.schema).data
        /\ DOMAIN parsed.data = SchemaKeys(parsed.schema)

C11_Witness ==
    /\ parsed.schema = "TopNSchema"
    /\ DOMAIN parsed.searchParams = {"topN", "page", "limit"}
    /\ parsed.searchParams["topN"] = RawStr(<<"5">>)
    /\ parsed.searchParams["page"] = RawStr(<<"a","b","c">>)
    /\ parsed.ok
    /\ parsed.data["topN"] = JSNumber(5)

\* C12: the date-range validator accepts only real calendar dates: a
\* request to report 5 whose startDate or endDate is not one (2026-13-45)
\* fails validation, so no query is sent and every date value the database
\* receives from getResumenDaily is a real calendar date.
IsCalendarDate(raw) ==
    raw.a # <<>> /\ DateCast(JSString(raw.a[1])).ok

C12_OnlyCalendarDatesAccepted ==
    reporte = 5 =>
        /\ (\E k \in {"startDate", "endDate"} \cap DOMAIN searchParams :
                ~IsCalendarDate(searchParams[k]))
           => (sent = <<>> /\ wire = <<>> /\ pc \in {"render", "rejected"})
        /\ \A i \in 1 .. Len(wire) : \A j \in 1 .. Len(wire[i].values) :
               wire[i].values[j].t = "string" => DateCast(wire[i].values[j]).ok

\* C13: in the rows getVentasPorCategoria returns, the categories are
\* exactly those with revenue > 0, each once; each percentage is the
\* category revenue / the revenue of all order lines * 100 rounded to 2
\* decimals (it is within 0.005 of the exact share); rows come by revenue
\* descending; the percentages sum to 100 within 0.1; revenues 600 and 400
\* of a global 1000 give 60.00 and 40.00.  Percentages are in hundredths.
IngresosDe(d, c) ==
    LET ls == {l \in d.orden_detalles : CategoriaDe(l.producto_id) = c}
    IN  SumFn([l \in ls |-> l.subtotal], ls)

IngresosGlobales(d) ==
    SumFn([l \in d.orden_detalles |-> l.subtotal], d.orden_detalles)

Abs(x) == IF x < 0 THEN 0 - x ELSE x

C13_CategorySales ==
    (reporte = 1 /\ pc = "done") =>
        LET rows == outcome.data
            idx == 1 .. Len(rows)
        IN  /\ {rows[i].categoria_id : i \in idx} =
                   {c \in 1 .. NumCategorias : IngresosDe(db, c) > 0}
            /\ \A i, j \in idx :
                   rows[i].categoria_id = rows[j].categoria_id => i = j
            /\ \A i \in idx :
                   /\ rows[i].ingresos_totales =
                          IngresosDe(db, rows[i].categoria_id)
                   /\ ~rows[i].porcentaje_del_total.null
                   /\ 2 * Abs(rows[i].porcentaje_del_total.val
                                  * IngresosGlobales(db)
                              - 10000 * rows[i].ingresos_totales)
                          <= IngresosGlobales(db)
                   /\ (IngresosGlobales(db) = 1000
                          /\ rows[i].ingresos_totales \in {600, 400})
                       => rows[i].porcentaje_del_total.val =
                              rows[i].ingresos_totales * 10
            /\ \A i, j \in idx :
                   i < j => rows[i].ingresos_totales >= rows[j].ingresos_totales
            /\ rows # <<>> =>
                   Abs(SumFn([i \in idx |-> rows[i].porcentaje_del_total.val],
                             idx) - 10000) <= 10

C13_Witness ==
    /\ reporte = 1 /\ pc = "done"
    /\ IngresosGlobales(db) = 1000
    /\ \E c \in 1 .. NumCategorias :
           /\ \E l \in db.orden_detalles : CategoriaDe(l.producto_id) = c
           /\ IngresosDe(db, c) = 0
    /\ Len(outcome.data) = 2
    /\ outcome.data[1].ingresos_totales = 600
    /\ outcome.data[1].porcentaje_del_total = NotNull(6000)
    /\ outcome.data[2].ingresos_totales = 400
    /\ outcome.data[2].porcentaje_del_total = NotNull(4000)

\* C14: the N rows of the product ranking (read through
\* getProductosMasVendidos with no parameter, N <= 10) carry the ranks
\* 1, ..., N, each once; units sold never increases as the rank increases;
\* the products are exactly those with units sold > 0, each once, with
\* their units.
UnidadesDe(d, p) ==
    LET ls == {l \in d.orden_detalles : l.producto_id = p}
    IN  SumFn([l \in ls |-> l.cantidad], ls)

C14_ProductRanking ==
    (reporte = 2 /\ pc = "done" /\ searchParams = NoParams) =>
        LET rows == outcome.data
            idx == 1 .. Len(rows)
            vendidos == {p \in {l.producto_id : l \in db.orden_detalles} :
                            UnidadesDe(db, p) > 0}
        IN  /\ Len(rows) = Cardinality(vendidos)
            /\ {rows[i].ranking : i \in idx} = idx
            /\ \A i \in idx : rows[i].ranking = i
            /\ {rows[i].producto_id : i \in idx} = vendidos
            /\ \A i \in idx :
                   /\ rows[i].cantidad_vendida = UnidadesDe(db, rows[i].producto_id)
                   /\ rows[i].cantidad_vendida > 0
            /\ \A i, j \in idx :
                   rows[i].ranking < rows[j].ranking =>
                       rows[i].cantidad_vendida >= rows[j].cantidad_vendida
            /\ outcome.total = JSNumber(Cardinality(vendidos))

C14_Witness ==
    /\ reporte = 2 /\ pc = "done" /\ searchParams = NoParams
    /\ Len(outcome.data) >= 4
    /\ \E l \in db.orden_detalles : UnidadesDe(db, l.producto_id) = 0
    /\ \E i \in 1 .. Len(outcome.data) - 1 :
           /\ outcome.data[i].cantidad_vendida =
                  outcome.data[i + 1].cantidad_vendida
           /\ outcome.data[i].producto_id > outcome.data[i + 1].producto_id

\* C15: the user summary (read through getUsuariosConCompras with no
\* parameter) has one row per user, each user once; the row of a user
\* with no order has order count, total spent, average per order and
\* distinct products 0, a NULL last purchase and the tier 'Sin compras'.
OrdenesDe(d, u) == {o \in d.ordenes : o.usuario_id = u}

C15_ZeroOrderUsers ==
    (reporte = 3 /\ pc = "done" /\ searchParams = NoParams) =>
        LET rows == outcome.data
            idx == 1 .. Len(rows)
        IN  /\ {rows[i].usuario_id : i \in idx} = db.usuarios
            /\ Len(rows) = Cardinality(db.usuarios)
            /\ \A i \in idx :
                   OrdenesDe(db, rows[i].usuario_id) = {} =>
                       /\ rows[i].total_ordenes = 0
                       /\ rows[i].total_gastado = 0
                       /\ rows[i].promedio_por_orden = 0
                       /\ rows[i].productos_diferentes_comprados = 0
                       /\ rows[i].ultima_compra = Null
                       /\ rows[i].tipo_cliente = "Sin compras"

C15_Witness ==
    /\ reporte = 3 /\ pc = "done" /\ searchParams = NoParams
    /\ OrdenesDe(db, 1) # {} /\ OrdenesDe(db, 2) = {}
    /\ \E i \in 1 .. Len(outcome.data) :
           /\ outcome.data[i].usuario_id = 2
           /\ outcome.data[i].tipo_cliente = "Sin compras"
           /\ outcome.data[i].ultima_compra = Null
    /\ \E i \in 1 .. Len(outcome.data) :
           /\ outcome.data[i].usuario_id = 1
           /\ ~outcome.data[i].ultima_compra.null

\* C16: the tier of every user follows from the number of the user's
\* orders: 3 or more 'Frecuente', 1 or 2 'Ocasional', none 'Sin compras',
\* however many lines the orders have.
C16_TierByOrderCount ==
    (reporte = 3 /\ pc = "done" /\ searchParams = NoParams) =>
        \A i \in 1 .. Len(outcome.data) :
            LET n == Cardinality(OrdenesDe(db, outcome.data[i].usuario_id))
            IN  outcome.data[i].tipo_cliente =
                    (IF n >= 3 THEN "Frecuente"
                     ELSE IF n >= 1 THEN "Ocasional" ELSE "Sin compras")

\* C17: every row getOrdenesPorStatus returns carries the share of its
\* status in the totals over all orders (count and amount, each within
\* 0.005 of the exact share; the amount share is NULL when the global
\* amount is 0); without a filter the rows are the statuses present and
\* their order shares sum to 100 within 0.1; with a status filter the one
\* row returned is that same row, so its share is below 100 whenever
\* orders of another status exist.
OrdenesCon(d, st) == {o \in d.ordenes : o.status = st}
Monto(S) == SumFn([o \in S |-> o.total], S)

C17_StatusShares ==
    (reporte = 4 /\ pc = "done") =>
        LET rows == outcome.data
            idx == 1 .. Len(rows)
            N == Cardinality(db.ordenes)
            M == Monto(db.ordenes)
        IN  /\ \A i \in idx :
                   LET g == OrdenesCon(db, rows[i].status)
                   IN  /\ rows[i].cantidad_ordenes = Cardinality(g)
                       /\ ~rows[i].porcentaje_ordenes.null
                       /\ 2 * Abs(rows[i].porcentaje_ordenes.val * N
                                  - 10000 * Cardinality(g)) <= N
                       /\ rows[i].porcentaje_monto.null = (M = 0)
                       /\ M > 0 =>
                              2 * Abs(rows[i].porcentaje_monto.val * M
                                      - 10000 * Monto(g)) <= M
                       /\ Cardinality(g) < N =>
                              rows[i].porcentaje_ordenes.val < 10000
            /\ \A i, j \in idx : rows[i].status = rows[j].status => i = j
            /\ args.status = Undefined =>
                   /\ {rows[i].status : i \in idx} =
                          {o.status : o \in db.ordenes}
                   /\ rows # <<>> =>
                          Abs(SumFn([i \in idx |-> rows[i].porcentaje_ordenes.val],
                                    idx) - 10000) <= 10
            /\ args.status # Undefined =>
                   {rows[i].status : i \in idx} =
                       {o.status : o \in OrdenesCon(db, args.status.s)}

C17_Witness ==
    /\ reporte = 4 /\ pc = "done"
    /\ args.status = JSString(Pendiente)
    /\ Cardinality(db.ordenes) = 3
    /\ Len(outcome.data) = 1
    /\ outcome.data[1].status = Pendiente
    /\ outcome.data[1].porcentaje_ordenes = NotNull(3333)
    /\ ~outcome.data[1].porcentaje_monto.null
    /\ outcome.data[1].porcentaje_monto.val < 10000

\* C19: the daily summary (read through getResumenDaily with no
\* parameter) has exactly one row per calendar date that has an order; the
\* running total of each row is the sum of the daily revenue of the rows
\* of that date and earlier, so it never decreases as the date increases.
C19_RunningTotalIsPrefixSum ==
    (reporte = 5 /\ pc = "done" /\ searchParams = NoParams) =>
        LET rows == outcome.data
            idx == 1 .. Len(rows)
        IN  /\ {rows[i].fecha : i \in idx} =
                   {DATE(o.created_at) : o \in db.ordenes}
            /\ \A i, j \in idx : rows[i].fecha = rows[j].fecha => i = j
            /\ \A i \in idx :
                   /\ rows[i].ventas_del_dia >= 0
                   /\ rows[i].ventas_acumuladas =
                          LET hasta == {j \in idx : rows[j].fecha <= rows[i].fecha}
                          IN  SumFn([j \in hasta |-> rows[j].ventas_del_dia], hasta)
            /\ \A i, j \in idx :
                   rows[i].fecha <= rows[j].fecha =>
                       rows[i].ventas_acumuladas <= rows[j].ventas_acumuladas

C19_Witness ==
    /\ reporte = 5 /\ pc = "done" /\ searchParams = NoParams
    /\ Len(outcome.data) = 2
    /\ outcome.data[1].fecha > outcome.data[2].fecha
    /\ outcome.data[2].ventas_del_dia > 0
    /\ outcome.data[1].ventas_del_dia > 0
    /\ outcome.data[1].ventas_acumuladas =
           outcome.data[1].ventas_del_dia + outcome.data[2].ventas_del_dia
    /\ outcome.data[2].ventas_acumuladas = outcome.data[2].ventas_del_dia

\* C18 as stated: in every result of getResumenDaily, whatever the filter
\* and the page, the running total of the row with the latest date equals
\* the sum of the daily revenue over the rows of that result.
LatestRow(rows) ==
    rows[CHOOSE i \in 1 .. Len(rows) :
             \A j \in 1 .. Len(rows) : rows[j].fecha <= rows[i].fecha]

C18_LatestEqualsSumOfResult ==
    (reporte = 5 /\ pc = "done" /\ outcome.data # <<>>) =>
        LatestRow(outcome.data).ventas_acumuladas =
            SumFn([i \in 1 .. Len(outcome.data) |->
                      outcome.data[i].ventas_del_dia],
                  1 .. Len(outcome.data))

\* C18 amended: in every result of getResumenDaily, whatever the filter
\* and the page, the running total of the row with the latest date equals
\* the sum of the view's daily revenue over every date of the view up to
\* that date; it equals the sum over the rows of the result when those
\* rows are all the rows of the view up to that date.
C18_LatestEqualsSumOfView ==
    (reporte = 5 /\ pc = "done" /\ outcome.data # <<>>) =>
        LET rows == outcome.data
            latest == LatestRow(rows)
            previas == {r \in view_resumen_daily(db) : r.fecha <= latest.fecha}
        IN  /\ latest.ventas_acumuladas =
                   SumFn([r \in previas |-> r.ventas_del_dia], previas)
            /\ previas = {rows[i] : i \in 1 .. Len(rows)} =>
                   latest.ventas_acumuladas =
                       SumFn([i \in 1 .. Len(rows) |-> rows[i].ventas_del_dia],
                             1 .. Len(rows))

C18_Witness ==
    /\ reporte = 5 /\ pc = "done"
    /\ args.startDate = JSString(RawDate2.a[1])
    /\ Len(outcome.data) = 1
    /\ outcome.data[1].fecha = 20260102
    /\ outcome.data[1].ventas_del_dia > 0
    /\ outcome.data[1].ventas_acumuladas > outcome.data[1].ventas_del_dia

\* C20: within a paginated request the fetch query is handed to query()
\* only after the count query was received by the database and resolved
\* (total holds its count); at most one query of the request is
\* unanswered at any time; when the count query fails, the request ends
\* with the count as the only query ever issued.
C20_CountThenFetch ==
    reporte \in Paginated =>
        /\ Len(sent) <= 2
        /\ Len(sent) - Len(wire) \in {0, 1}
        /\ Len(sent) = 2 =>
               /\ sent[1].text[1].k = "count"
               /\ sent[2].text[1].k = "select"
               /\ Len(wire) >= 1
               /\ wire[1].text = sent[1].text
               /\ total.t = "number"
        /\ (pc \in {"count", "fetch"}) => Len(wire) = Len(sent) - 1
        /\ total = Undefined => Len(sent) <= 1
        /\ (pc = "failed" /\ total = Undefined) =>
               /\ Len(sent) = 1
               /\ sent[1].text[1].k = "count"

C20_Witness ==
    /\ reporte = 5 /\ pc = "failed"
    /\ Len(sent) = 1 /\ Len(wire) = 1
    /\ sent[1].text[1].k = "count"
    /\ total = Undefined
    /\ ~DateCast(wire[1].values[1]).ok

\* ------------------------------------------------------------------------
\* C21: a data-access failure fails the whole operation with no retry.
\* Every query handed to query() reaches the database at most once and as
\* it was handed over; a gateway function returns a result only when every
\* query it issued was executed and succeeded; when one fails, the count
\* included or not, the caller gets the failure and nothing of a result.
\* ------------------------------------------------------------------------
Succeeded(i) ==
    \E res \in ExecQuery(db, wire[i].text, wire[i].values) : res.ok

C21_FailureFailsTheOperation ==
    reporte \in 1 .. 5 =>
        /\ Len(wire) <= Len(sent)
        /\ \A i \in 1 .. Len(wire) : wire[i].text = sent[i].text
        /\ outcome.kind = "ok" =>
              /\ Len(wire) = Len(sent)
              /\ Len(sent) = (IF reporte \in Paginated THEN 2 ELSE 1)
              /\ \A i \in 1 .. Len(wire) : Succeeded(i)
        /\ pc = "failed" =>
              /\ outcome = [NoOutcome EXCEPT !.kind = "failed"]
              /\ Len(sent) - Len(wire) \in {0, 1}
              /\ Len(sent) = Len(wire) => ~Succeeded(Len(wire))

\* the count succeeded, the fetch failed
C21_Witness ==
    /\ reporte \in Paginated
    /\ pc = "failed"
    /\ Len(sent) = 2
    /\ total.t = "number"
    /\ outcome.kind = "failed" /\ outcome.data = <<>>
    /\ outcome.total = Undefined

\* ------------------------------------------------------------------------
\* The fixed catalog of query texts: the five view reads, their count
\* variants and the KPI reads
\* ------------------------------------------------------------------------
AnyDate == {Undefined, JSString(RawDate1.a[1])}

Catalog ==
    { getVentasPorCategoria_query.text,
      getProductosMasVendidos_count(JSNumber(1)).text,
      getProductosMasVendidos_fetch(JSNumber(1), JSNumber(1),
                                    JSNumber(0)).text,
      getUsuariosConCompras_count.text,
      getUsuariosConCompras_fetch(JSNumber(1), JSNumber(0)).text,
      getOrdenesPorStatus_query(Undefined).text,
      getOrdenesPorStatus_query(JSString(Pendiente)).text }
    \cup { getResumenDaily_count(getResumenDaily_where(s, e)).text :
             s \in AnyDate, e \in AnyDate }
    \cup { getResumenDaily_fetch(getResumenDaily_where(s, e), <<>>).text :
             s \in AnyDate, e \in AnyDate }
    \cup { getDashboardKPIs_queries[i].text :
             i \in 1 .. Len(getDashboardKPIs_queries) }

\* C22: the data access surface is closed.  Whatever the modules of the
\* application call among the exports of lib/queries.ts and lib/db.ts,
\* every query text the database receives is a text of the catalog.
C22_OnlyCatalogTexts ==
    \A i \in 1 .. Len(wire) : wire[i].text \in Catalog

\* ------------------------------------------------------------------------
\* C23: every statement the application sends to the database, over any
\* sequence of requests for the dashboard and the five reports, is a
\* SELECT whose FROM target is one of the five views; none reads a base
\* table and none holds a write verb.
\* ------------------------------------------------------------------------
FiveViews ==
    {"view_ventas_por_categoria", "view_productos_mas_vendidos",
     "view_usuarios_con_compras", "view_ordenes_por_status",
     "view_resumen_daily"}

WriteVerbs == {"insert", "update", "delete", "drop", "alter", "truncate"}

SelectOfView(text) ==
    /\ text[1].k \in {"select", "count", "sum"}
    /\ text[1].s \in FiveViews
    /\ \A j \in 1 .. Len(text) : text[j].k \notin WriteVerbs

C23_OnlySelectsOfViews ==
    /\ \A i \in 1 .. Len(sent) : SelectOfView(sent[i].text)
    /\ \A i \in 1 .. Len(wire) : SelectOfView(wire[i].text)

\* the dashboard has sent its five reads
C23_Witness ==
    /\ pc = "done" /\ reporte = 0
    /\ Len(wire) = 5 /\ Len(results) = 5
    /\ wire[4].text = getDashboardKPIs_usuarios.text

\* ------------------------------------------------------------------------
\* C24: no percentage or average raises a division error.  Every query of
\* a valid request is executed without error whatever the data; a
\* percentage whose global divisor is zero is NULL; getDashboardKPIs
\* returns ticketPromedio = 0 when the order count is 0, and never a
\* quotient by zero.
\* ------------------------------------------------------------------------
C24_NoDivisionError ==
    /\ \A i \in 1 .. Len(wire) : Succeeded(i)
    /\ (reporte = 1 /\ pc = "done") =>
          \A i \in 1 .. Len(outcome.data) :
              /\ ~outcome.data[i].porcentaje_del_total.err
              /\ IngresosGlobales(db) = 0 =>
                     outcome.data[i].porcentaje_del_total = Null
    /\ (reporte = 4 /\ pc = "done") =>
          \A i \in 1 .. Len(outcome.data) :
              /\ ~outcome.data[i].porcentaje_ordenes.err
              /\ ~outcome.data[i].porcentaje_monto.err
              /\ db.ordenes = {} => outcome.data[i].porcentaje_ordenes = Null
              /\ Monto(db.ordenes) = 0 =>
                     outcome.data[i].porcentaje_monto = Null
    /\ (reporte = 0 /\ pc = "done") =>
          /\ outcome.data[1].ticketPromedio.den # 0
          /\ outcome.data[1].totalOrdenes = 0 =>
                 outcome.data[1].ticketPromedio = Quotient(0, 1)

\* the status report over orders whose amounts add up to zero
C24_Witness ==
    /\ reporte = 4 /\ pc = "done"
    /\ Len(outcome.data) >= 1
    /\ Monto(db.ordenes) = 0
    /\ outcome.data[1].porcentaje_monto = Null
    /\ ~outcome.data[1].porcentaje_ordenes.null

\* ------------------------------------------------------------------------
\* C25: when the data the fetch reads has the number of matching rows the
\* count found (in particular when nothing was written between the two),
\* a paginated request returns min(limit, max(0, total - offset)) rows
\* with offset = (page - 1) * limit.  When a write lands between the count
\* and the fetch, a result of another size is reachable: C25_Witness.
\* ------------------------------------------------------------------------
ExpectedRows(count) ==
    Min(args.limit.n,
        IF count - (args.page.n - 1) * args.limit.n > 0
        THEN count - (args.page.n - 1) * args.limit.n ELSE 0)

C25_RowsMatchCountWhenStatic ==
    (reporte \in Paginated /\ pc = "done") =>
        /\ Len(outcome.data) = ExpectedRows(MatchCount)
        /\ outcome.total.n = MatchCount =>
               Len(outcome.data) = ExpectedRows(outcome.total.n)

\* a write between the count and the fetch: the rows returned are not
\* those the total announces
C25_Witness ==
    /\ reporte \in Paginated /\ pc = "done"
    /\ outcome.total.n # MatchCount
    /\ Len(outcome.data) # ExpectedRows(outcome.total.n)

\* ------------------------------------------------------------------------
\* C26: a request in which an optional filter is present with an empty
\* string value (startDate=, endDate= or status=), the other filters of
\* the schema being absent, empty or valid, validates successfully and
\* the empty filter comes out as absent.
\* ------------------------------------------------------------------------
EmptyRaw == RawStr(<<>>)

EmptyOrValid(k, v) ==
    \/ v = EmptyRaw
    \/ k \in {"startDate", "endDate"} /\ v \in {RawDate1, RawDate2}
    \/ k = "status" /\ v.t = "string" /\ v.a[1] \in StatusEnum

C26_EmptyFilterIsAbsent ==
    parsed.schema \in {"DateRangeSchema", "OrderStatusSchema"} =>
        LET sp == parsed.searchParams
            keys == SchemaKeys(parsed.schema)
            present == {k \in keys : ~IsAbsent(sp, k)}
        IN  (/\ \E k \in present : sp[k] = EmptyRaw
             /\ \A k \in present : EmptyOrValid(k, sp[k]))
            => /\ parsed.ok
               /\ \A k \in present :
                      sp[k] = EmptyRaw => parsed.data[k] = Undefined

\* ------------------------------------------------------------------------
\* C27: in the DailySummary view the daily revenue of a date is the sum of
\* the totals of the orders created on that date, each order counted once
\* whatever its number of lines, and the average ticket is that revenue
\* divided by the day's order count.
\* ------------------------------------------------------------------------
OrdenesDelDia(d, f) == {o \in d.ordenes : DATE(o.created_at) = f}

C27_DailyRevenueCountsOrdersOnce ==
    (reporte = 5 /\ pc = "done") =>
        \A i \in 1 .. Len(outcome.data) :
            LET r == outcome.data[i]
                del == OrdenesDelDia(db, r.fecha)
            IN  /\ r.ordenes_del_dia = Cardinality(del)
                /\ r.ventas_del_dia = Monto(del)
                /\ r.ticket_promedio_dia =
                       RoundAvg(Monto(del), Cardinality(del))

\* ------------------------------------------------------------------------
\* C28: in the UserSummary view the total spent of a user is the sum of
\* the totals of that user's orders, each order counted once whatever its
\* number of lines, and the average per order is that sum divided by the
\* user's order count (0 for a user without orders).
\* ------------------------------------------------------------------------
OrdenesDelUsuario(d, u) == {o \in d.ordenes : o.usuario_id = u}

PromedioDe(S) ==
    IF S = {} THEN 0 ELSE RoundAvg(Monto(S), Cardinality(S)).val

C28_UserTotalCountsOrdersOnce ==
    (reporte = 3 /\ pc = "done") =>
        \A i \in 1 .. Len(outcome.data) :
            LET r == outcome.data[i]
                del == OrdenesDelUsuario(db, r.usuario_id)
            IN  /\ r.total_ordenes = Cardinality(del)
                /\ r.total_gastado = Monto(del)
                /\ r.promedio_por_orden = PromedioDe(del)

\* ------------------------------------------------------------------------
\* C29: getDashboardKPIs returns totalOrdenes equal to the number of
\* distinct orders that have at least one order line (an order whose lines
\* span two categories is counted once), and ticketPromedio equal to the
\* total sales divided by that number of orders.
\* ------------------------------------------------------------------------
OrdenesConLineas(d) ==
    {o \in d.ordenes : \E l \in d.orden_detalles : l.orden_id = o.id}

C29_KpiCountsOrdersOnce ==
    (reporte = 0 /\ pc = "done" /\ Len(results) = 5) =>
        LET kpis == outcome.data[1]
            n == Cardinality(OrdenesConLineas(db))
        IN  /\ kpis.totalOrdenes = n
            /\ n > 0 =>
                  kpis.ticketPromedio.num * n
                      = kpis.totalVentas * kpis.ticketPromedio.den

\* ------------------------------------------------------------------------
\* C30: a request never has more than one query in flight: every gateway
\* function, getDashboardKPIs with its five queries included, issues its
\* queries one after another.  So the requests being served hold at most
\* one pooled connection each, and never more than the pool maximum.
\* ------------------------------------------------------------------------
Active == {r \in 1 .. NumRequests : requests[r].fn # ""}

HeldBy(S) == SumFn([r \in S |-> requests[r].held], S)

====
